---------------------------- MODULE Spec2Model ----------------------------
(***************************************************************************)
(* Smart Renovation: the estimate engine (src/estimator.py and its         *)
(* fallback copy in src/main.py) and the quote flow of SmartApp             *)
(* (src/main.py, generate_estimate).                                        *)
(*                                                                         *)
(* Numbers.  A Python float is modelled by the exact rational it stands    *)
(* for, a record [n, d] in lowest terms with d > 0.  round(x, 2) is the     *)
(* nearest multiple of 1/100.  Where the outcome turns on the binary       *)
(* double behind an exact decimal (x exactly half-way between two          *)
(* hundredths in round, an exact multiple in % ) the double lies either    *)
(* just below or just above the decimal: the side is a property of the     *)
(* host (variable fp_side) and both are explored.                          *)
(*                                                                         *)
(* Text.  A Python str is a sequence of one-character strings, so that     *)
(* lower(), the substring test and float()/int() are computed.             *)
(***************************************************************************)
EXTENDS Integers, Sequences, FiniteSets, TLC

VARIABLES
    fp_side,        \* host: the side of an exact decimal its double lies on
    est_imported,   \* main.py:70-72: did "from estimator import ..." succeed
    ml_model,       \* SmartApp.ml_model: "None", or how its predict() behaves
    mat_model,      \* SmartApp.mat_model: "None", or how its predict() behaves
    screen,         \* root.current
    svc_spinner,    \* service screen, ids.svc_spinner.text
    area_txt,       \* service screen, ids.area_txt.text
    points_txt,     \* service screen, ids.points_txt.text
    current_image,  \* SmartApp.current_image
    last_estimate,  \* SmartApp.last_estimate
    est_label,      \* quote screen, ids.est_label.text
    breakdown_label, \* quote screen, ids.breakdown_label.text
    quote_image,    \* quote screen, ids.quote_image.source
    gen,            \* the locals of the last generate_estimate when it returned
    call,           \* the estimator function invoked and its arguments
    ret,            \* what that invocation returned
    pending,        \* per caller of the estimator: the call it has in progress
    done,           \* per caller of the estimator: its last call and the result
    error,          \* the exception that left a handler uncaught, or "none"
    popup,          \* title and message of the last popup shown, or <<>>
    log_popup,      \* whether the Worker Log popup is open
    requests,       \* the rows of the SQLite table requests
    records_csv,    \* the rows of data/records.csv, absent until first written
    work_logs,      \* the rows of the SQLite table work_logs
    work_logs_csv,  \* the rows of data/work_logs.csv, absent until first written
    visit_popup,    \* whether the Site Visit popup is open
    visits,         \* the rows of the SQLite table visits
    uploads,        \* the files copied into assets/uploads
    hist_grid,      \* history screen, the cards of ids.hist_grid, top first
    estimate_saves, \* history: request rows written from the estimate generated last
    providers_cache, \* SmartApp._providers_cache
    prov_search,    \* providers screen, ids.prov_search.text
    prov_filter,    \* providers screen, ids.prov_filter.text
    prov_grid,      \* providers screen, the cards of ids.prov_grid, top first
    df_real,        \* train_model.py: the real rows loaded
    df,             \* train_model.py: the composed data set
    train_df        \* train_model.py: the data set after the sanity clean

host == <<fp_side, est_imported, ml_model, mat_model>>
form == <<svc_spinner, area_txt, points_txt>>
quote == <<last_estimate, est_label, breakdown_label, quote_image, gen>>
callers == <<pending, done>>
popups == <<popup, log_popup, visit_popup>>
storage == <<requests, records_csv, work_logs, work_logs_csv, visits, uploads>>
ledger == <<hist_grid, estimate_saves>>
directory == <<providers_cache, prov_search, prov_filter, prov_grid>>
trainer == <<df_real, df, train_df>>
annex == <<ledger, directory, trainer>>
vars == <<host, screen, form, current_image, quote, call, ret, callers, error,
          popups, storage, annex>>

---------------------------------------------------------------------------
(* Exact rational arithmetic standing for float arithmetic *)

Abs(i) == IF i < 0 THEN -i ELSE i

RECURSIVE Gcd(_, _)
Gcd(a, b) == IF b = 0 THEN a ELSE Gcd(b, a % b)

\* the values a float holds beside the finite ones: d = 0
Inf    == [n |-> 1, d |-> 0]
NegInf == [n |-> -1, d |-> 0]
NaN    == [n |-> 0, d |-> 0]

Sign(i) == IF i < 0 THEN -1 ELSE IF i > 0 THEN 1 ELSE 0

Rat(n, d) ==
    LET s == IF d < 0 THEN -1 ELSE 1
        g == Gcd(Abs(n), Abs(d))
    IN  IF d = 0
        THEN [n |-> Sign(n), d |-> 0]
        ELSE [n |-> (s * n) \div g, d |-> (s * d) \div g]

Int2Rat(i) == [n |-> i, d |-> 1]
Zero == Int2Rat(0)

\* inf + inf = inf, inf - inf = nan, inf * 0 = nan, inf / inf = nan, and a
\* comparison with nan is False; the divisor of RDiv is never zero
RAdd(x, y) ==
    IF x.d = 0 /\ y.d = 0
    THEN IF x.n = y.n THEN x ELSE NaN
    ELSE Rat(x.n * y.d + y.n * x.d, x.d * y.d)
RSub(x, y) ==
    IF x.d = 0 /\ y.d = 0
    THEN IF x.n = -y.n THEN x ELSE NaN
    ELSE Rat(x.n * y.d - y.n * x.d, x.d * y.d)
RMul(x, y) == Rat(x.n * y.n, x.d * y.d)
RDiv(x, y) ==
    IF x.d = 0
    THEN IF y.d = 0 THEN NaN ELSE Rat(x.n * y.n, 0)
    ELSE Rat(x.n * y.d, x.d * y.n)
RLe(x, y) ==
    IF x = NaN \/ y = NaN THEN FALSE
    ELSE IF x.d = 0 /\ y.d = 0 THEN x.n <= y.n
    ELSE x.n * y.d <= y.n * x.d
RLt(x, y) ==
    IF x = NaN \/ y = NaN THEN FALSE
    ELSE IF x.d = 0 /\ y.d = 0 THEN x.n < y.n
    ELSE x.n * y.d < y.n * x.d

\* floor(x) of a finite x as an integer (\div rounds towards minus infinity)
RFloor(x) == x.n \div x.d

\* round(x, 2): the nearest hundredth; at an exact tie the side of the double;
\* inf, -inf and nan are returned as they are
Round2(fp, x) ==
    LET half == Rat(1, 2)
        Pick(fl, rem) ==
            Rat(IF RLt(half, rem) \/ (rem = half /\ fp = "above") THEN fl + 1 ELSE fl,
                100)
        Split(h, fl) == Pick(fl, RSub(h, Int2Rat(fl)))
        Hundredths(h) == Split(h, RFloor(h))
    IN  IF x.d = 0 THEN x ELSE Hundredths(RMul(x, Int2Rat(100)))

\* Operators that round take the host's side fp ("below" or "above") first.

---------------------------------------------------------------------------
(* src/estimator.py *)

\* In each function the parameter defaults of the def line
DefaultCoverage      == Int2Rat(10)
DefaultCoats         == 2
DefaultPaintWastage  == Rat(1, 10)
DefaultPricePerLitre == Int2Rat(250)
DefaultTileWastage   == Rat(5, 100)
DefaultRatePerM2     == Int2Rat(600)
DefaultNumPoints     == 1
DefaultBaseCharge    == Int2Rat(500)
DefaultPerPoint      == Int2Rat(300)
DefaultLabourRate    == Int2Rat(30)

\* The i-th positional argument the caller passed, or the parameter's default
Arg(args, i, default) == IF i <= Len(args) THEN args[i] ELSE default

\* "(wall_area_m2 / coverage)" raises ZeroDivisionError when it is reached
\* with coverage = 0
paint_estimate_raises(wall_area_m2, coverage, coats, wastage, price_per_litre) ==
    ~RLe(wall_area_m2, Zero) /\ coverage = Zero

\* mutant: the wastage allowance is left out
paint_estimate_no_wastage(fp, wall_area_m2, coverage, coats, wastage, price_per_litre) ==
    IF RLe(wall_area_m2, Zero)
    THEN <<Zero, Zero>>
    ELSE LET litres == RMul(RDiv(wall_area_m2, coverage), Int2Rat(coats))
             material_cost == RMul(litres, price_per_litre)
         IN  <<Round2(fp, litres), Round2(fp, material_cost)>>

paint_estimate(fp, wall_area_m2, coverage, coats, wastage, price_per_litre) ==
    IF RLe(wall_area_m2, Zero)
    THEN <<Zero, Zero>>
    ELSE LET litres == RMul(RMul(RDiv(wall_area_m2, coverage), Int2Rat(coats)),
                            RAdd(Int2Rat(1), wastage))
             material_cost == RMul(litres, price_per_litre)
         IN  <<Round2(fp, litres), Round2(fp, material_cost)>>

\* mutant: the cost is taken on the bare area, not on the quantity with wastage
tiles_estimate_cost_on_area(fp, floor_area_m2, wastage, rate_per_m2) ==
    IF RLe(floor_area_m2, Zero)
    THEN <<Zero, Zero>>
    ELSE LET qty  == RMul(floor_area_m2, RAdd(Int2Rat(1), wastage))
             cost == RMul(floor_area_m2, rate_per_m2)
         IN  <<Round2(fp, qty), Round2(fp, cost)>>

\* mutant: the test on the area is left out
tiles_estimate_no_guard(fp, floor_area_m2, wastage, rate_per_m2) ==
    LET qty  == RMul(floor_area_m2, RAdd(Int2Rat(1), wastage))
        cost == RMul(qty, rate_per_m2)
    IN  <<Round2(fp, qty), Round2(fp, cost)>>

tiles_estimate(fp, floor_area_m2, wastage, rate_per_m2) ==
    IF RLe(floor_area_m2, Zero)
    THEN <<Zero, Zero>>
    ELSE LET qty  == RMul(floor_area_m2, RAdd(Int2Rat(1), wastage))
             cost == RMul(qty, rate_per_m2)
         IN  <<Round2(fp, qty), Round2(fp, cost)>>

\* mutant: the callout charge is counted once per point
plumbing_estimate_base_per_point(fp, num_points, base_charge, per_point) ==
    IF num_points <= 0
    THEN Zero
    ELSE Round2(fp, RMul(Int2Rat(num_points), RAdd(base_charge, per_point)))

\* mutant: the test is "< 0", so 0 points is charged the callout
plumbing_estimate_zero_charged(fp, num_points, base_charge, per_point) ==
    IF num_points < 0
    THEN Zero
    ELSE Round2(fp, RAdd(base_charge, RMul(Int2Rat(num_points), per_point)))

\* mutant: a flat visit charge, whatever the number of points
plumbing_estimate_flat_visit(fp, num_points, base_charge, per_point) ==
    IF num_points <= 0
    THEN Zero
    ELSE Round2(fp, RAdd(base_charge, per_point))

plumbing_estimate(fp, num_points, base_charge, per_point) ==
    IF num_points <= 0
    THEN Zero
    ELSE LET total == RAdd(base_charge, RMul(Int2Rat(num_points), per_point))
         IN  Round2(fp, total)

\* mutant: the rate passed is ignored for the default one
generic_labour_default_rate(fp, area_m2, labour_rate_per_m2) ==
    IF RLe(area_m2, Zero)
    THEN Zero
    ELSE Round2(fp, RMul(area_m2, DefaultLabourRate))

\* mutant: the arguments are kept in a module-level variable, so a call in
\* progress elsewhere with other arguments is the one that gets priced
generic_labour_shared_args(fp, area_m2, labour_rate_per_m2) ==
    LET Others == {c \in DOMAIN pending :
                      /\ pending[c].fn = "generic_labour"
                      /\ <<pending[c].args[1], Arg(pending[c].args, 2, DefaultLabourRate)>>
                             # <<area_m2, labour_rate_per_m2>>}
        Priced(area, rate) ==
            IF RLe(area, Zero) THEN Zero ELSE Round2(fp, RMul(area, rate))
        Of(k) == Priced(k.args[1], Arg(k.args, 2, DefaultLabourRate))
    IN  IF Others = {}
        THEN Priced(area_m2, labour_rate_per_m2)
        ELSE Of(pending[CHOOSE c \in Others : TRUE])

generic_labour(fp, area_m2, labour_rate_per_m2) ==
    IF RLe(area_m2, Zero)
    THEN Zero
    ELSE Round2(fp, RMul(area_m2, labour_rate_per_m2))

---------------------------------------------------------------------------
(* src/main.py:73-93, the definitions used when estimator.py cannot be     *)
(* imported                                                                *)

fb_paint_estimate_raises(area, coverage, coats, wastage, price_per_litre) ==
    ~RLe(area, Zero) /\ coverage = Zero

fb_paint_estimate(fp, area, coverage, coats, wastage, price_per_litre) ==
    IF RLe(area, Zero)
    THEN <<Zero, Zero>>
    ELSE LET litres == RMul(RMul(RDiv(area, coverage), Int2Rat(coats)),
                            RAdd(Int2Rat(1), wastage))
         IN  <<Round2(fp, litres), Round2(fp, RMul(litres, price_per_litre))>>

fb_tiles_estimate(fp, area, wastage, rate_per_m2) ==
    IF RLe(area, Zero)
    THEN <<Zero, Zero>>
    ELSE LET qty == RMul(area, RAdd(Int2Rat(1), wastage))
         IN  <<Round2(fp, qty), Round2(fp, RMul(qty, rate_per_m2))>>

fb_plumbing_estimate(fp, points, base, per_point) ==
    IF points <= 0
    THEN Zero
    ELSE Round2(fp, RAdd(base, RMul(Int2Rat(points), per_point)))

fb_generic_labour(fp, area, labour_rate_per_m2) ==
    IF RLe(area, Zero)
    THEN Zero
    ELSE Round2(fp, RMul(area, labour_rate_per_m2))

---------------------------------------------------------------------------
(* Python str: a sequence of one-character strings *)

UpperLetters == <<"A","B","C","D","E","F","G","H","I","J","K","L","M",
                  "N","O","P","Q","R","S","T","U","V","W","X","Y","Z">>
LowerLetters == <<"a","b","c","d","e","f","g","h","i","j","k","l","m",
                  "n","o","p","q","r","s","t","u","v","w","x","y","z">>
Digits == <<"0","1","2","3","4","5","6","7","8","9">>

LowerChar(c) ==
    IF \E i \in 1..Len(UpperLetters) : UpperLetters[i] = c
    THEN LowerLetters[CHOOSE i \in 1..Len(UpperLetters) : UpperLetters[i] = c]
    ELSE c

\* str.lower()
Lower(t) == [i \in 1..Len(t) |-> LowerChar(t[i])]

\* "sub in t"
Contains(sub, t) ==
    \E i \in 0..(Len(t) - Len(sub)) :
        \A j \in 1..Len(sub) : t[i + j] = sub[j]

\* str.strip()
RECURSIVE LStrip(_)
LStrip(t) == IF t # <<>> /\ Head(t) = " " THEN LStrip(Tail(t)) ELSE t
RECURSIVE RStrip(_)
RStrip(t) == IF t # <<>> /\ t[Len(t)] = " " THEN RStrip(SubSeq(t, 1, Len(t) - 1)) ELSE t
Strip(t) == RStrip(LStrip(t))

IsDigit(c) == \E i \in 1..Len(Digits) : Digits[i] = c
DigitVal(c) == (CHOOSE i \in 1..Len(Digits) : Digits[i] = c) - 1

RECURSIVE Pow10(_)
Pow10(k) == IF k = 0 THEN 1 ELSE 10 * Pow10(k - 1)

\* the number a string of decimal digits denotes
RECURSIVE NatOf(_)
NatOf(t) == IF t = <<>> THEN 0
            ELSE 10 * NatOf(SubSeq(t, 1, Len(t) - 1)) + DigitVal(t[Len(t)])

\* the decimal digits of a natural number
RECURSIVE NatStr(_)
NatStr(k) == IF k < 10 THEN <<Digits[k + 1]>>
             ELSE NatStr(k \div 10) \o <<Digits[(k % 10) + 1]>>

\* str(i) of an int
IntStr(i) == IF i < 0 THEN <<"-">> \o NatStr(-i) ELSE NatStr(i)

Unsigned(t) == IF t # <<>> /\ Head(t) \in {"-", "+"} THEN Tail(t) ELSE t
SignOf(t)   == IF t # <<>> /\ Head(t) = "-" THEN -1 ELSE 1

\* str(x) of inf, -inf and nan
NonFiniteStr(x) ==
    IF x = NaN THEN <<"n", "a", "n">>
    ELSE (IF x.n < 0 THEN <<"-">> ELSE <<>>) \o <<"i", "n", "f">>

RECURSIVE LStripZeros(_)
LStripZeros(t) == IF t # <<>> /\ Head(t) = "0" THEN LStripZeros(Tail(t)) ELSE t

\* the largest double, 1.797...e308, has 309 digits before the point
FloatMaxWholeDigits == 309

\* float(t) for a text of sign, digits and decimal point (the characters the
\* 'float' input filter lets through): ok = FALSE stands for ValueError; a
\* number of more than FloatMaxWholeDigits whole digits is beyond the largest
\* double and float() returns inf or -inf for it
ParseFloat(t) ==
    LET b     == Unsigned(t)
        dots  == {i \in 1..Len(b) : b[i] = "."}
        wellformed == /\ \A i \in 1..Len(b) : IsDigit(b[i]) \/ b[i] = "."
                      /\ Cardinality(dots) <= 1
                      /\ \E i \in 1..Len(b) : IsDigit(b[i])
        dot   == IF dots = {} THEN Len(b) + 1 ELSE CHOOSE i \in dots : TRUE
        Value(whole, frac, scale) ==
            Rat(SignOf(t) * (NatOf(whole) * scale + NatOf(frac)), scale)
        Parts(whole, frac) == Value(whole, frac, Pow10(Len(frac)))
        At(k) ==
            IF Len(LStripZeros(SubSeq(b, 1, k - 1))) > FloatMaxWholeDigits
            THEN Rat(SignOf(t), 0)
            ELSE Parts(SubSeq(b, 1, k - 1), SubSeq(b, k + 1, Len(b)))
    IN  IF Lower(b) = <<"n", "a", "n">>
        THEN [ok |-> TRUE, val |-> NaN]
        ELSE IF Lower(b) \in {<<"i", "n", "f">>,
                              <<"i", "n", "f", "i", "n", "i", "t", "y">>}
        THEN [ok |-> TRUE, val |-> Rat(SignOf(t), 0)]
        ELSE IF wellformed
        THEN [ok |-> TRUE, val |-> At(dot)]
        ELSE [ok |-> FALSE, val |-> Zero]

\* int(t) for such a text: ok = FALSE stands for ValueError
ParseInt(t) ==
    LET b == Unsigned(t)
        wellformed == b # <<>> /\ \A i \in 1..Len(b) : IsDigit(b[i])
    IN  IF wellformed
        THEN [ok |-> TRUE, val |-> SignOf(t) * NatOf(b)]
        ELSE [ok |-> FALSE, val |-> 0]

\* f"{x:.2f}": x to the nearest hundredth, sign, whole part, point, two digits
Fmt2(fp, x) ==
    LET sgn == IF x.n < 0 THEN <<"-">> ELSE <<>>
        \* c: the hundredths, as an integer
        Shown(c) == sgn \o NatStr(c \div 100) \o <<".">>
                        \o <<Digits[((c % 100) \div 10) + 1], Digits[(c % 10) + 1]>>
        Count(r) == Shown(Abs(r.n) * (100 \div r.d))
    IN  IF x.d = 0 THEN NonFiniteStr(x) ELSE Count(Round2(fp, x))

\* the number of decimals of a terminating decimal x = n/d
RECURSIVE Decimals(_)
Decimals(x) == IF x.d = 1 THEN 0 ELSE 1 + Decimals(RMul(x, Int2Rat(10)))

RECURSIVE ZeroPad(_, _)
ZeroPad(t, width) == IF Len(t) >= width THEN t ELSE ZeroPad(<<"0">> \o t, width)

\* repr(x) of a float in positional notation (1e-4 <= |x| < 1e16, or 0):
\* whole part, point, the decimals with no trailing zero but at least one
ReprFloat(x) ==
    LET sgn == IF x.n < 0 THEN <<"-">> ELSE <<>>
        \* k decimals; p = 10^k; m = |x| * 10^k, an integer
        Shown(k, p, m) ==
            IF k = 0
            THEN sgn \o NatStr(m) \o <<".", "0">>
            ELSE sgn \o NatStr(m \div p) \o <<".">> \o ZeroPad(NatStr(m % p), k)
        Scaled(k, p) == Shown(k, p, Abs(x.n) * (p \div x.d))
        WithDecimals(k) == Scaled(k, Pow10(k))
    IN  IF x.d = 0 THEN NonFiniteStr(x) ELSE WithDecimals(Decimals(x))

---------------------------------------------------------------------------
(* src/main.py: SmartApp, the service form and the quote screen *)

\* Characters TLA+ strings cannot hold are written out: "(bullet)", "->",
\* "Rs", "x" and "m2" stand for the bullet, arrow, rupee, times and
\* superscript-two signs of the source.

SelectService == <<"S", "e", "l", "e", "c", "t", " ", "S", "e", "r", "v", "i", "c", "e">>
Painting      == <<"P", "a", "i", "n", "t", "i", "n", "g">>
Plumbing      == <<"P", "l", "u", "m", "b", "i", "n", "g">>
Tiles         == <<"T", "i", "l", "e", "s">>
Carpentry     == <<"C", "a", "r", "p", "e", "n", "t", "r", "y">>
ACService     == <<"A", "C", " ", "S", "e", "r", "v", "i", "c", "e">>
Renovation    == <<"R", "e", "n", "o", "v", "a", "t", "i", "o", "n">>
Electrical    == <<"E", "l", "e", "c", "t", "r", "i", "c", "a", "l">>

\* main.py:387, the values the spinner offers
SpinnerValues == {Painting, Plumbing, Tiles, Carpentry, ACService, Renovation, Electrical}

\* the substrings generate_estimate looks for (main.py:807, 815, 823)
SubPaint == <<"p","a","i","n","t">>
SubTile  == <<"t","i","l","e">>
SubPlumb == <<"p","l","u","m","b">>

\* the names estimator.py's functions are bound to in main.py (main.py:70-93):
\* estimator.py's when the import succeeded (imp), else main.py's own; called
\* with the arguments generate_estimate passes
main_paint_estimate(imp, fp, area) ==
    IF imp
    THEN paint_estimate(fp, area, DefaultCoverage, DefaultCoats, DefaultPaintWastage,
                        DefaultPricePerLitre)
    ELSE fb_paint_estimate(fp, area, DefaultCoverage, DefaultCoats, DefaultPaintWastage,
                           DefaultPricePerLitre)

main_tiles_estimate(imp, fp, area) ==
    IF imp
    THEN tiles_estimate(fp, area, DefaultTileWastage, DefaultRatePerM2)
    ELSE fb_tiles_estimate(fp, area, DefaultTileWastage, DefaultRatePerM2)

main_plumbing_estimate(imp, fp, points) ==
    IF imp
    THEN plumbing_estimate(fp, points, DefaultBaseCharge, DefaultPerPoint)
    ELSE fb_plumbing_estimate(fp, points, DefaultBaseCharge, DefaultPerPoint)

main_generic_labour(imp, fp, area, labour_rate_per_m2) ==
    IF imp
    THEN generic_labour(fp, area, labour_rate_per_m2)
    ELSE fb_generic_labour(fp, area, labour_rate_per_m2)

\* mutant: the spinner's text is taken as it is
GenSvcAsSelected(spinner_text) == spinner_text

\* main.py:788-791
GenSvc(spinner_text) ==
    IF spinner_text = <<>> \/ spinner_text = SelectService THEN Painting ELSE spinner_text

\* main.py:792-797
GenArea(area_text) ==
    LET Parsed(r) == IF r.ok THEN r.val ELSE Zero
    IN  IF area_text # <<>> THEN Parsed(ParseFloat(area_text)) ELSE Zero

\* main.py:793, 798-801
GenPoints(points_text) ==
    LET Parsed(r) == IF r.ok THEN r.val ELSE 0
    IN  IF points_text # <<>> THEN Parsed(ParseInt(points_text)) ELSE 0

\* main.py:804-830, the if / elif chain over s = svc.lower()
\* mutant: 'tile' is looked for before 'paint'
BranchTileFirst(svc) ==
    LET Chain(s) ==
            IF Contains(SubTile, s) THEN "tile"
            ELSE IF Contains(SubPaint, s) THEN "paint"
            ELSE IF Contains(SubPlumb, s) THEN "plumb"
            ELSE "generic"
    IN  Chain(Lower(svc))

Branch(svc) ==
    LET Chain(s) ==
            IF Contains(SubPaint, s) THEN "paint"
            ELSE IF Contains(SubTile, s) THEN "tile"
            ELSE IF Contains(SubPlumb, s) THEN "plumb"
            ELSE "generic"
    IN  Chain(Lower(svc))

Max(a, b) == IF a >= b THEN a ELSE b

\* main.py:807-814
PaintBranch(imp, fp, area) ==
    LET Locals(litres, mat_cost, labour) ==
            [branch   |-> "paint",
             material |-> mat_cost,
             labour   |-> labour,
             total    |-> RAdd(mat_cost, labour),
             breakdown |-> << <<"[b]Painting[/b]">>,
                              <<"(bullet) Material: ">> \o ReprFloat(litres)
                                  \o <<" L paint  -> Rs">> \o Fmt2(fp, mat_cost),
                              <<"(bullet) Labour:  Rs">> \o Fmt2(fp, labour) >>,
             material_qty |-> [key |-> "paint_litres", val |-> litres]]
        Unpack(pair, labour) == Locals(pair[1], pair[2], labour)
    IN  Unpack(main_paint_estimate(imp, fp, area),
               main_generic_labour(imp, fp, area, DefaultLabourRate))

\* mutant: the tile labour is priced at generic_labour's default rate
TileBranchDefaultRate(imp, fp, area) ==
    LET Locals(qty_m2, mat_cost, labour) ==
            [branch   |-> "tile",
             material |-> mat_cost,
             labour   |-> labour,
             total    |-> RAdd(mat_cost, labour),
             breakdown |-> << <<"[b]Tiling[/b]">>,
                              <<"(bullet) Material: ">> \o ReprFloat(qty_m2)
                                  \o <<" m2 tiles (incl. wastage) -> Rs">> \o Fmt2(fp, mat_cost),
                              <<"(bullet) Labour:  Rs">> \o Fmt2(fp, labour) >>,
             material_qty |-> [key |-> "tiles_m2", val |-> qty_m2]]
        Unpack(pair, labour) == Locals(pair[1], pair[2], labour)
    IN  Unpack(main_tiles_estimate(imp, fp, area),
               main_generic_labour(imp, fp, area, DefaultLabourRate))

\* main.py:815-822
TileBranch(imp, fp, area) ==
    LET Locals(qty_m2, mat_cost, labour) ==
            [branch   |-> "tile",
             material |-> mat_cost,
             labour   |-> labour,
             total    |-> RAdd(mat_cost, labour),
             breakdown |-> << <<"[b]Tiling[/b]">>,
                              <<"(bullet) Material: ">> \o ReprFloat(qty_m2)
                                  \o <<" m2 tiles (incl. wastage) -> Rs">> \o Fmt2(fp, mat_cost),
                              <<"(bullet) Labour:  Rs">> \o Fmt2(fp, labour) >>,
             material_qty |-> [key |-> "tiles_m2", val |-> qty_m2]]
        Unpack(pair, labour) == Locals(pair[1], pair[2], labour)
    IN  Unpack(main_tiles_estimate(imp, fp, area),
               main_generic_labour(imp, fp, area, Int2Rat(50)))

\* mutant: the points typed are priced as they are, with no floor of 1
PlumbBranchNoFloor(imp, fp, points) ==
    LET Locals(pl_cost) ==
            [branch   |-> "plumb",
             material |-> Zero,
             labour   |-> Zero,
             total    |-> pl_cost,
             breakdown |-> << <<"[b]Plumbing[/b]">>,
                              <<"(bullet) Points: ">> \o IntStr(Max(points, 1)),
                              <<"(bullet) Total:  Rs">> \o Fmt2(fp, pl_cost) >>,
             material_qty |-> [key |-> "plumbing_points", val |-> Max(points, 1)]]
    IN  Locals(main_plumbing_estimate(imp, fp, points))

\* main.py:823-829; the branch has no material / labour split
PlumbBranch(imp, fp, points) ==
    LET Locals(pl_cost) ==
            [branch   |-> "plumb",
             material |-> Zero,
             labour   |-> Zero,
             total    |-> pl_cost,
             breakdown |-> << <<"[b]Plumbing[/b]">>,
                              <<"(bullet) Points: ">> \o IntStr(Max(points, 1)),
                              <<"(bullet) Total:  Rs">> \o Fmt2(fp, pl_cost) >>,
             material_qty |-> [key |-> "plumbing_points", val |-> Max(points, 1)]]
    IN  Locals(main_plumbing_estimate(imp, fp, IF points > 0 THEN points ELSE 1))

\* mutant: the material is priced at 100 per m2
GenericBranchCheapMaterial(imp, fp, svc, area) ==
    LET Locals(labour, material) ==
            [branch   |-> "generic",
             material |-> material,
             labour   |-> labour,
             total    |-> RAdd(labour, material),
             breakdown |-> << <<"[b]">> \o svc \o <<"[/b]">>,
                              <<"(bullet) Material est: Rs">> \o Fmt2(fp, material),
                              <<"(bullet) Labour:       Rs">> \o Fmt2(fp, labour) >>,
             material_qty |-> [key |-> "generic_area", val |-> area]]
    IN  Locals(main_generic_labour(imp, fp, area, Int2Rat(80)),
               RMul(area, Int2Rat(100)))

\* main.py:830-837
GenericBranch(imp, fp, svc, area) ==
    LET Locals(labour, material) ==
            [branch   |-> "generic",
             material |-> material,
             labour   |-> labour,
             total    |-> RAdd(labour, material),
             breakdown |-> << <<"[b]">> \o svc \o <<"[/b]">>,
                              <<"(bullet) Material est: Rs">> \o Fmt2(fp, material),
                              <<"(bullet) Labour:       Rs">> \o Fmt2(fp, labour) >>,
             material_qty |-> [key |-> "generic_area", val |-> area]]
    IN  Locals(main_generic_labour(imp, fp, area, Int2Rat(80)),
               RMul(area, Int2Rat(150)))

\* main.py:802-837: the locals when the if / elif chain is left
Estimate(imp, fp, svc, area, points) ==
    LET Taken(b) ==
            CASE b = "paint"   -> PaintBranch(imp, fp, area)
              [] b = "tile"    -> TileBranch(imp, fp, area)
              [] b = "plumb"   -> PlumbBranch(imp, fp, points)
              [] b = "generic" -> GenericBranch(imp, fp, svc, area)
    IN  Taken(Branch(svc))

\* main.py:887-896: the loop over the can sizes, then the extra 1 L can.
\* cans is the dict in insertion order, as <<key, count>> pairs.
CanSizes == <<10, 4, 1>>

RECURSIVE PackCans(_, _, _, _)
PackCans(fp, i, needed, cans) ==
    IF i > Len(CanSizes)
    THEN [needed |-> needed, cans |-> cans]
    ELSE LET Take(size, cnt) ==
                 IF cnt > 0
                 THEN PackCans(fp, i + 1,
                               Round2(fp, RSub(needed, Int2Rat(cnt * size))),
                               Append(cans, <<NatStr(size) \o <<"L">>, cnt>>))
                 ELSE PackCans(fp, i + 1, needed, cans)
         IN  Take(CanSizes[i], RFloor(RDiv(needed, Int2Rat(CanSizes[i]))))

\* cans["1L"] = cans.get("1L", 0) + 1
AddOneLitre(cans) ==
    IF \E i \in 1..Len(cans) : cans[i][1] = <<"1", "L">>
    THEN [i \in 1..Len(cans) |->
             IF cans[i][1] = <<"1", "L">> THEN <<cans[i][1], cans[i][2] + 1>> ELSE cans[i]]
    ELSE Append(cans, <<<<"1", "L">>, 1>>)

\* mutant: the residue left after the 1-litre cans is dropped
PaintCansNoExtra(fp, litres) == PackCans(fp, 1, litres, <<>>).cans

\* mutant: the extra 1-litre can is added whether or not a residue is left
PaintCansAlwaysExtra(fp, litres) == AddOneLitre(PackCans(fp, 1, litres, <<>>).cans)

PaintCans(fp, litres) ==
    LET Packed(p) == IF RLt(Zero, p.needed) THEN AddOneLitre(p.cans) ELSE p.cans
    IN  Packed(PackCans(fp, 1, litres, <<>>))

\* ", ".join(f"{v}x{k}" for k, v in cans.items())
RECURSIVE JoinCans(_)
JoinCans(cans) ==
    IF cans = <<>> THEN <<>>
    ELSE LET one == NatStr(cans[1][2]) \o <<"x">> \o cans[1][1]
         IN  IF Len(cans) = 1 THEN one ELSE one \o <<", ">> \o JoinCans(Tail(cans))

\* main.py:903-906 on doubles: sqm // 1.2, and one more box when sqm % 1.2 > 0.
\* When sqm is an exact multiple of 1.2 the remainder of the doubles is 0, a
\* little above 0 or a little below 1.2, so q or q + 1 boxes come out.
TileBoxes(fp, sqm) ==
    LET box_cover == Rat(12, 10)
        Boxes(q) ==
            IF RSub(sqm, RMul(Int2Rat(q), box_cover)) # Zero THEN q + 1
            ELSE IF fp = "above" THEN q + 1 ELSE q
    IN  Boxes(RFloor(RDiv(sqm, box_cover)))

\* main.py:881-913: the suggestion computed when no material model gave one
\* main.py:890, 904: needed // size and sqm // box_cover of inf are nan, and
\* int(nan) raises ValueError
SuggestionRaises(branch, material_qty) ==
    /\ branch \in {"paint", "tile"}
    /\ ~RLe(material_qty.val, Zero)
    /\ material_qty.val.d = 0

\* main.py:881-913, for quantities it does not raise on
Suggestion(fp, branch, material_qty) ==
    CASE branch = "paint" ->
            LET litres == material_qty.val
                Parts(cans, shown) ==
                    <<"\nPurchase suggestion (paint): ">>
                        \o (IF cans # <<>> THEN JoinCans(cans) ELSE shown \o <<" L">>)
                        \o <<"  (approx. ">> \o shown \o <<" L required)">>
            IN  IF RLe(litres, Zero)
                THEN <<"\nMaterial suggestion: No paint required for 0 area.">>
                ELSE Parts(PaintCans(fp, litres), ReprFloat(litres))
      [] branch = "tile" ->
            LET sqm == material_qty.val
                Bought(boxes) ==
                    <<"\nPurchase suggestion (tiles): ">> \o NatStr(boxes)
                        \o <<" boxes (covering ~">>
                        \o ReprFloat(Round2(fp, RMul(Int2Rat(boxes), Rat(12, 10))))
                        \o <<" m2) for required ">> \o ReprFloat(sqm) \o <<" m2">>
            IN  IF RLe(sqm, Zero)
                THEN <<"\nMaterial suggestion: No tiles required for 0 area.">>
                ELSE Bought(TileBoxes(fp, sqm))
      [] branch = "plumb" ->
            <<"\nPurchase suggestion (plumbing): Basic parts for ">>
                \o IntStr(material_qty.val) \o <<" connection point(s).">>
      [] branch = "generic" ->
            <<"\nMaterial suggestion: Approx. material for ">>
                \o ReprFloat(material_qty.val) \o <<" m2 (use local supplier rates).">>

\* what a loaded model's predict() may return (an outside input)
MlPredictions  == {Rat(123456, 100)}
MatPredictions == {<<"2 bags">>}
Timestamps     == {"t1"}

\* '\n'.join(lines)
RECURSIVE JoinLines(_)
JoinLines(lines) ==
    IF lines = <<>> THEN <<>>
    ELSE IF Len(lines) = 1 THEN lines[1]
    ELSE lines[1] \o <<"\n">> \o JoinLines(Tail(lines))

NoEstimate == [set |-> FALSE]

---------------------------------------------------------------------------
(* SmartApp's handlers.  Typing into the form runs no code of the program: *)
(* the texts generate_estimate finds in the three widgets are its inputs,  *)
(* and the widget variables hold the texts as the handler left them.       *)

\* main.py:706-710, the splash animation completes: change_screen('home')
GoHome ==
    /\ error = "none"
    /\ screen = "splash"
    /\ screen' = "home"
    /\ UNCHANGED <<host, annex, callers, error, popups, storage, form, current_image, quote, call, ret>>

\* main.py:328, 331: the home screen's buttons, change_screen('service')
OpenService ==
    /\ error = "none"
    /\ popup = <<>> /\ ~log_popup /\ ~visit_popup
    /\ screen = "home"
    /\ screen' = "service"
    /\ UNCHANGED <<host, annex, callers, error, popups, storage, form, current_image, quote, call, ret>>

\* main.py:437-443: the Clear button
Clear ==
    /\ error = "none"
    /\ popup = <<>> /\ ~log_popup /\ ~visit_popup
    /\ screen = "service"
    /\ svc_spinner' = SelectService
    /\ area_txt' = <<>>
    /\ points_txt' = <<>>
    /\ current_image' = <<>>
    /\ UNCHANGED <<host, annex, callers, error, popups, storage, screen, quote, call, ret>>

\* main.py:502-504: the quote screen's Back button, change_screen('service')
Back ==
    /\ error = "none"
    /\ popup = <<>> /\ ~log_popup /\ ~visit_popup
    /\ screen = "quote"
    /\ screen' = "service"
    /\ UNCHANGED <<host, annex, callers, error, popups, storage, form, current_image, quote, call, ret>>

\* main.py:786-847 and 881-921: what generate_estimate computes from the three
\* texts, before a loaded model has its say
Quote(imp, fp, svc_text, area_text, points_text) ==
    LET Computed(svc, area, points, e) ==
            [svc |-> svc, area |-> area, points |-> points,
             branch |-> e.branch, material |-> e.material, labour |-> e.labour,
             total |-> e.total, breakdown |-> e.breakdown,
             material_qty |-> e.material_qty,
             recorded_total |-> Round2(fp, e.total),
             shown_total |-> Fmt2(fp, e.total),
             raises |-> SuggestionRaises(e.branch, e.material_qty),
             suggestion |-> IF SuggestionRaises(e.branch, e.material_qty)
                            THEN <<>>
                            ELSE Suggestion(fp, e.branch, e.material_qty)]
        Locals(svc, area, points) ==
            Computed(svc, area, points, Estimate(imp, fp, svc, area, points))
    IN  Locals(GenSvc(svc_text), GenArea(Strip(area_text)), GenPoints(Strip(points_text)))

---------------------------------------------------------------------------
(* The inputs explored *)

\* a file that does not exist
NoFile == [exists |-> FALSE]

\* the callers of the estimator's functions, and a caller with no call
Callers == {"a", "b"}
NoCall == [fn |-> "none"]

MaxPoints   == 2      \* the largest point count typed or passed
MaxMant     == 10     \* areas passed to the estimator: m * 10 / 10^e,
MaxNegMant  == 2      \*   m in -MaxNegMant..MaxMant,
MaxDecimals == 4      \*   e in 0..MaxDecimals + 1

\* texts the 'float' input filter of the area field lets through (main.py:395)
AreaTexts ==
    {<<>>,
     <<"-">>,
     <<"-", "2">>,
     <<"0">>,
     <<".", "0", "0", "0", "1">>,
     <<"3", ".", "4", "3">>,
     <<"5", "0">>,
     <<"1", "0", "0">>}

\* texts the 'int' input filter of the points field lets through (main.py:404)
PointsTexts == {<<>>, <<"-">>} \cup {IntStr(i) : i \in -1..MaxPoints}

\* the spinner's text: its initial text or one of its values
SpinnerTexts == {SelectService} \cup SpinnerValues

\* the spinner texts explored with every area and points text: one per branch
FormServices == {SelectService, Painting, Tiles, Plumbing, Carpentry}

\* texts a caller may put in the spinner: main.py:789 provides for the empty one
UpperPaint      == <<"P", "A", "I", "N", "T">>
TilePainting    == <<"T", "i", "l", "e", " ", "P", "a", "i", "n", "t", "i", "n", "g">>
PlumbingTiles   == <<"P", "l", "u", "m", "b", "i", "n", "g", " ", "T", "i", "l", "e", "s">>
PlumberPainting == <<"P", "l", "u", "m", "b", "e", "r", " ", "p", "a", "i", "n", "t", "i", "n", "g">>
Roof            == <<"R", "o", "o", "f">>
OtherServiceTexts ==
    {<<>>, UpperPaint, TilePainting, PlumbingTiles, PlumberPainting, Roof}

DispatchAreaTexts   == {<<>>, <<"5", "0">>, <<"-", "2">>}
DispatchPointsTexts == {<<>>, <<"4">>, <<"-", "1">>}

\* the forms whose purchase suggestion is explored: Painting and Tiles, over
\* whole areas up to MaxArea and a few other texts
MaxArea == 60
PurchaseServices == {Painting, Tiles}
PurchaseAreaTexts ==
    {<<>>, <<"-", "2">>, <<"3", ".", "4", "3">>, <<"1", "0", "0">>}
    \cup {NatStr(k) : k \in 0..MaxArea}

\* area texts up to one beyond the largest double: FloatMaxWholeDigits + 1
\* nines, with and without a minus sign
HugeAreaText == [i \in 1..(FloatMaxWholeDigits + 1) |-> "9"]
ExtremeAreaTexts ==
    {<<>>, <<"-">>, <<"5", "0">>, HugeAreaText, <<"-">> \o HugeAreaText}

\* the estimates saved: the rows the table requests may hold, and the forms
MaxSaved == 2
SaveServices == {Painting, Plumbing, Carpentry}
SaveAreaTexts == {<<>>, <<"5", "0">>}
SavePointsTexts == {<<>>, <<"2">>}

\* the work logs saved: the rows the table work_logs may hold, and the texts
\* of the Worker Log popup
MaxLogs == 2
WorkerTexts == {<<>>, <<" ">>, <<"R", "a", "v", "i", " ">>}
CompletedTexts == {<<>>, <<"t", "i", "l", "e", "s", "\n", "l", "a", "i", "d">>}
NextDayTexts == {<<>>, <<"g", "r", "o", "u", "t">>}
Selections == {<<>>, <<"site.png">>}

\* the form of the specifications with a photo and with the history
PhotoServices == {Carpentry}
PhotoAreaTexts == {<<"5", "0">>}

\* the forms explored by the specifications below
Forms ==
    (FormServices \X AreaTexts \X PointsTexts)
    \cup (FormServices \X ExtremeAreaTexts \X PointsTexts)
    \cup ((SpinnerTexts \cup OtherServiceTexts) \X DispatchAreaTexts \X DispatchPointsTexts)
    \cup (PurchaseServices \X PurchaseAreaTexts \X {<<>>})
    \cup (PhotoServices \X PhotoAreaTexts \X {<<>>})

\* Quote, tabulated once over the hosts and forms explored
QuoteOf ==
    [k \in {<<imp, fp, f[1], f[2], f[3]>> :
                imp \in BOOLEAN, fp \in {"below", "above"}, f \in Forms} |->
        Quote(k[1], k[2], k[3], k[4], k[5])]

\* the states of a model attribute: None (main.py:712-725), or a loaded model
\* whose predict returns, or one whose predict (or the pandas import) raises
ModelStates == {"None", "predicts", "raises"}

\* mutant: a predicting cost model's figure is recorded as the total
LastEstimateModelTotal(q, now, image) ==
    [set       |-> TRUE,
     service   |-> q.svc,
     area      |-> q.area,
     points    |-> q.points,
     total     |-> IF ml_model = "predicts"
                   THEN Round2(fp_side, CHOOSE pred \in MlPredictions : TRUE)
                   ELSE q.recorded_total,
     breakdown |-> q.breakdown,
     time      |-> now,
     image     |-> image]

\* a record that keeps the photo the quote screen shows
LastEstimateShownImage(q, now, image) ==
    [set       |-> TRUE,
     service   |-> q.svc,
     area      |-> q.area,
     points    |-> q.points,
     total     |-> q.recorded_total,
     breakdown |-> q.breakdown,
     time      |-> now,
     image     |-> IF image = <<>> THEN quote_image ELSE image]

\* main.py:839-847, the dict assigned to self.last_estimate
LastEstimate(q, now, image) ==
    [set       |-> TRUE,
     service   |-> q.svc,
     area      |-> q.area,
     points    |-> q.points,
     total     |-> q.recorded_total,
     breakdown |-> q.breakdown,
     time      |-> now,
     image     |-> image]

\* main.py:786-923, generate_estimate (the Generate Estimate button,
\* main.py:417-419) with svc_text, area_text and points_text in the widgets
GenerateEstimate(svc_text, area_text, points_text) ==
    /\ error = "none"
    /\ popup = <<>> /\ ~log_popup /\ ~visit_popup
    /\ screen = "service"
    /\ \E pred \in MlPredictions, mat_val \in MatPredictions, now \in Timestamps,
          q \in {QuoteOf[<<est_imported, fp_side, svc_text, area_text, points_text>>]} :
        LET \* main.py:849-862
            ml_text == IF ml_model = "predicts"
                       THEN <<"\nML predicted total: Rs">> \o Fmt2(fp_side, pred)
                       ELSE <<>>
            \* main.py:864-879
            ml_mat_text == IF mat_model = "predicts"
                           THEN <<"\nML material suggestion: ">> \o mat_val
                           ELSE <<>>
            \* main.py:881-913
            mat_text == IF ml_mat_text = <<>> THEN q.suggestion ELSE ml_mat_text
        IN  /\ svc_spinner' = q.svc
            /\ last_estimate' = LastEstimate(q, now, current_image)
            /\ IF ml_mat_text = <<>> /\ q.raises
               THEN \* the exception leaves generate_estimate at main.py:890 or 904
                    /\ error' = "ValueError"
                    /\ UNCHANGED <<breakdown_label, quote_image, est_label, gen, screen>>
               ELSE /\ breakdown_label' = JoinLines(q.breakdown) \o <<"\n">> \o mat_text
                    /\ quote_image' = current_image
                    /\ est_label' = <<"Estimated total: Rs">> \o q.shown_total \o ml_text
                    /\ gen' = [set |-> TRUE, svc_text |-> svc_text, svc |-> q.svc,
                               area |-> q.area, points |-> q.points,
                               branch |-> q.branch, material |-> q.material,
                               labour |-> q.labour, total |-> q.total,
                               material_qty |-> q.material_qty,
                               ml_text |-> ml_text, mat_text |-> mat_text]
                    /\ screen' = "quote"
                    /\ error' = "none"
    /\ area_txt' = area_text
    /\ points_txt' = points_text
    /\ estimate_saves' = 0
    /\ UNCHANGED <<host, hist_grid, directory, trainer, callers, popups, storage,
                   current_image, call, ret>>

\* main.py:1069-1119, load_history: hist_grid is cleared, then gets one card
\* per visit (get_site_visits, main.py:1173-1181), per saved estimate and per
\* work log, each table read ORDER BY id DESC with the database readable. A
\* card stands for the row it shows: its table and the row's id. sqlite3
\* stores a NaN as NULL, so a cost of NaN is read back as None and float(cost)
\* at main.py:1090 raises TypeError: load_history ends there.
Card(kind, id) == [kind |-> kind, id |-> id]
\* the cards of a table read in the order of insertion
OldestFirst(kind, rows) == [i \in 1..Len(rows) |-> Card(kind, i)]
NewestFirst(kind, rows) == [i \in 1..Len(rows) |-> Card(kind, Len(rows) + 1 - i)]
load_history(visit_rows, request_rows, log_rows) ==
    LET estimates  == NewestFirst("estimate", request_rows)
        unreadable == {i \in 1..Len(estimates) :
                          request_rows[estimates[i].id].cost = NaN}
        first_bad  == CHOOSE i \in unreadable : \A j \in unreadable : i <= j
    IN  IF unreadable = {}
        THEN NewestFirst("visit", visit_rows) \o estimates
                 \o NewestFirst("log", log_rows)
        ELSE NewestFirst("visit", visit_rows) \o SubSeq(estimates, 1, first_bad - 1)

\* main.py:670-680: data/providers.json as build() seeds it
Provider(id, name, service) == [id |-> id, name |-> name, service |-> service]
PROVIDERS_FILE ==
    <<Provider(1, <<"A", "m", "i", "t", " ", "E", "l", "e", "c", "t", "r", "i", "c", "a", "l", "s">>, <<"E", "l", "e", "c", "t", "r", "i", "c", "a", "l">>),
      Provider(2, <<"R", "a", "v", "i", " ", "P", "a", "i", "n", "t", "e", "r", "s">>, <<"P", "a", "i", "n", "t", "i", "n", "g">>),
      Provider(3, <<"S", "o", "n", "i", " ", "P", "l", "u", "m", "b", "e", "r", "s">>, <<"P", "l", "u", "m", "b", "i", "n", "g">>),
      Provider(4, <<"D", "r", "e", "a", "m", " ", "C", "a", "r", "p", "e", "n", "t", "r", "y">>, <<"C", "a", "r", "p", "e", "n", "t", "r", "y">>),
      Provider(5, <<"C", "o", "o", "l", " ", "A", "C", " ", "S", "e", "r", "v", "i", "c", "e", "s">>, <<"A", "C", " ", "S", "e", "r", "v", "i", "c", "e">>),
      Provider(6, <<"M", "o", "d", "i", "s", "h", " ", "R", "e", "n", "o", "v", "a", "t", "o", "r", "s">>, <<"R", "e", "n", "o", "v", "a", "t", "i", "o", "n">>)>>

\* main.py:1024-1038 and 1054-1067: one card per provider, in the list's order;
\* a card stands for the provider it shows
ProviderCards(providers) == [i \in 1..Len(providers) |-> providers[i].id]

\* a change_screen that leaves the application on the screen it shows
StayOnScreen(name) ==
    /\ screen' = screen
    /\ UNCHANGED <<providers_cache, prov_grid>>
    /\ hist_grid' = IF name = "history"
                    THEN load_history(visits', requests', work_logs')
                    ELSE hist_grid

\* main.py:727-735, change_screen: root.current is set, and the providers and
\* the history screens are loaded on entry (load_providers, main.py:1016-1038,
\* reads the providers file into the cache and shows a card for each entry);
\* load_history's TypeError is caught and printed at main.py:734-735
change_screen(name) ==
    /\ screen' = name
    /\ IF name = "providers"
       THEN /\ providers_cache' = PROVIDERS_FILE
            /\ prov_grid' = ProviderCards(PROVIDERS_FILE)
       ELSE UNCHANGED <<providers_cache, prov_grid>>
    /\ hist_grid' = IF name = "history"
                    THEN load_history(visits', requests', work_logs')
                    ELSE hist_grid

\* main.py:1205-1211: the OK button of the popup show_popup opened
DismissPopup ==
    /\ error = "none"
    /\ popup # <<>>
    /\ popup' = <<>>
    /\ UNCHANGED <<host, annex, callers, error, storage, screen, form, current_image, quote,
                   call, ret, log_popup, visit_popup>>

\* main.py:573: the history screen's Back button, change_screen('home')
HistoryHome ==
    /\ error = "none"
    /\ popup = <<>> /\ ~log_popup /\ ~visit_popup
    /\ screen = "history"
    /\ screen' = "home"
    /\ UNCHANGED <<host, annex, callers, error, popups, storage, form, current_image, quote,
                   call, ret>>

\* main.py:934-937: the row inserted into the table requests
RequestRow(le) ==
    [service |-> le.service, details |-> JoinLines(le.breakdown), cost |-> le.total,
     created_at |-> le.time, image |-> le.image]

\* main.py:944-947: the header and the row csv.writer writes, each value by
\* its str()
RecordsHeader == <<"time", "service", "area", "points", "image", "total">>
RecordsRow(le) ==
    <<le.time, le.service, ReprFloat(le.area), IntStr(le.points),
      IF le.image # <<>> THEN <<"1">> ELSE <<"0">>, ReprFloat(le.total)>>

\* open(path, 'a') and the writes: the header if the file did not exist, then
\* the row
AppendCsv(file, header, row) ==
    IF file.exists
    THEN [exists |-> TRUE, rows |-> Append(file.rows, row)]
    ELSE [exists |-> TRUE, rows |-> <<header, row>>]

\* main.py:925-952, save_estimate (the Save to History button, main.py:499-501);
\* db_ok and csv_ok: whether the insert and the append to records.csv succeed
SaveEstimate ==
    /\ error = "none"
    /\ popup = <<>> /\ ~log_popup /\ ~visit_popup
    /\ screen = "quote"
    /\ Len(requests) < MaxSaved
    /\ UNCHANGED <<host, trainer, prov_search, prov_filter, callers, form, quote, call,
                   ret, log_popup, visit_popup, work_logs, work_logs_csv, visits,
                   uploads>>
    /\ IF ~last_estimate.set
       THEN /\ popup' = <<"No estimate", "Please generate an estimate first.">>
            /\ UNCHANGED <<error, screen, current_image, requests, records_csv,
                           estimate_saves, hist_grid, providers_cache, prov_grid>>
       ELSE \E db_ok \in BOOLEAN, csv_ok \in BOOLEAN :
               IF ~db_ok
               THEN /\ error' = "sqlite3.Error"
                    /\ UNCHANGED <<popup, screen, current_image, requests, records_csv,
                                   estimate_saves, hist_grid, providers_cache,
                                   prov_grid>>
               ELSE /\ requests' = Append(requests, RequestRow(last_estimate))
                    /\ estimate_saves' = estimate_saves + 1
                    /\ records_csv' =
                          IF csv_ok
                          THEN AppendCsv(records_csv, RecordsHeader,
                                         RecordsRow(last_estimate))
                          ELSE records_csv
                    /\ popup' = <<"Saved", "Estimate saved to history.">>
                    /\ current_image' = <<>>
                    /\ error' = "none"
                    /\ change_screen("history")

\* main.py:436, 1214-1265: the Worker Log button opens the Worker Log popup
OpenWorkLog ==
    /\ error = "none"
    /\ popup = <<>> /\ ~log_popup /\ ~visit_popup
    /\ screen = "service"
    /\ log_popup' = TRUE
    /\ UNCHANGED <<host, annex, callers, error, storage, screen, form, current_image, quote,
                   call, ret, popup, visit_popup>>

\* main.py:1320: the popup's Cancel button
CancelWorkLog ==
    /\ error = "none"
    /\ popup = <<>> /\ log_popup
    /\ log_popup' = FALSE
    /\ UNCHANGED <<host, annex, callers, error, storage, screen, form, current_image, quote,
                   call, ret, popup, visit_popup>>

\* main.py:1271-1280: the photo path stored, for the file chooser's selection
\* sel (<<>>: none), the time of the copy and whether shutil.copy succeeds
PhotoPath(sel, copied_at, copy_ok) ==
    IF sel = <<>> THEN <<>>
    ELSE IF copy_ok THEN <<"assets/uploads/", copied_at, "_">> \o sel
    ELSE sel

\* main.py:1296-1297 and 1309-1310: the row inserted into the table work_logs,
\* the header and the row appended to work_logs.csv
WorkLogRow(worker, completed, next_day, photo_path, now) ==
    [worker |-> worker, completed |-> completed, next_day |-> next_day,
     photo |-> photo_path, created_at |-> now]
WorkLogsHeader == <<"created_at", "worker", "completed", "next_day", "photo">>
WorkLogsCsvRow(worker, completed, next_day, photo_path, now) ==
    <<now, worker, completed, next_day, photo_path>>

\* main.py:1267-1317, _save (the popup's Save Log button) with the texts of the
\* three inputs and the file chooser's selection; db_ok and csv_ok: whether the
\* insert and the append to work_logs.csv succeed
SaveWorkLog(name_text, completed_text, next_text, sel) ==
    /\ error = "none"
    /\ popup = <<>> /\ log_popup
    /\ Len(work_logs) < MaxLogs
    /\ UNCHANGED <<host, trainer, prov_search, prov_filter, estimate_saves, callers,
                   error, form, quote, call, ret, requests, records_csv, visits,
                   visit_popup>>
    /\ \E now \in Timestamps, copy_ok \in BOOLEAN, db_ok \in BOOLEAN, csv_ok \in BOOLEAN :
        LET Rejected == UNCHANGED <<log_popup, work_logs, work_logs_csv, current_image,
                                   screen, hist_grid, providers_cache, prov_grid>>
            Validated(worker, completed, next_day, photo_path) ==
                IF worker = <<>>
                THEN /\ popup' = <<"Missing", "Enter worker name.">>
                     /\ Rejected
                ELSE IF completed = <<>> /\ next_day = <<>>
                THEN /\ popup' = <<"Missing",
                                   "Enter details about completed work or next day plan.">>
                     /\ Rejected
                ELSE IF ~db_ok
                THEN /\ popup' = <<"Error", "Failed to save work log to database.">>
                     /\ Rejected
                ELSE /\ work_logs' = Append(work_logs,
                            WorkLogRow(worker, completed, next_day, photo_path, now))
                     /\ work_logs_csv' =
                            IF csv_ok
                            THEN AppendCsv(work_logs_csv, WorkLogsHeader,
                                     WorkLogsCsvRow(worker, completed, next_day,
                                                    photo_path, now))
                            ELSE work_logs_csv
                     /\ popup' = <<"Saved", "Work log saved.">>
                     /\ log_popup' = FALSE
                     /\ current_image' = <<>>
                     /\ change_screen("history")
        IN  \* main.py:1271-1280: the selected photo is copied before the
            \* validation at main.py:1282-1287
            /\ uploads' = IF sel # <<>> /\ copy_ok
                          THEN uploads \cup {PhotoPath(sel, now, copy_ok)}
                          ELSE uploads
            /\ Validated(Strip(name_text), Strip(completed_text), Strip(next_text),
                         PhotoPath(sel, now, copy_ok))

AppInit ==
    /\ fp_side \in {"below", "above"}
    /\ est_imported \in BOOLEAN
    /\ screen = "splash"
    /\ svc_spinner = SelectService
    /\ area_txt = <<>>
    /\ points_txt = <<>>
    /\ current_image = <<>>
    /\ last_estimate = NoEstimate
    /\ est_label = <<"Quotation">>
    /\ breakdown_label = <<>>
    /\ quote_image = <<>>
    /\ gen = [set |-> FALSE]
    /\ call = [fn |-> "none"]
    /\ ret = [exc |-> "none"]
    /\ pending = [c \in Callers |-> NoCall]
    /\ done = [c \in Callers |-> NoCall]
    /\ error = "none"
    /\ popup = <<>>
    /\ log_popup = FALSE
    /\ requests = <<>>
    /\ records_csv = NoFile
    /\ work_logs = <<>>
    /\ work_logs_csv = NoFile
    /\ visit_popup = FALSE
    /\ visits = <<>>
    /\ uploads = {}
    /\ hist_grid = <<>>
    /\ estimate_saves = 0
    /\ providers_cache = <<>>
    /\ prov_search = <<>>
    /\ prov_filter = <<"A", "l", "l">>
    /\ prov_grid = <<>>
    /\ df_real = [set |-> FALSE]
    /\ df = [set |-> FALSE]
    /\ train_df = [set |-> FALSE]

\* main.py:667-668 with no file under models/: both models are None
Init ==
    /\ AppInit
    /\ ml_model = "None"
    /\ mat_model = "None"

Next ==
    \/ GoHome
    \/ OpenService
    \/ Clear
    \/ Back
    \/ \E v \in FormServices, a \in AreaTexts, p \in PointsTexts :
           GenerateEstimate(v, a, p)

Spec == Init /\ [][Next]_vars

\* the application started with model files under models/ (main.py:667-668):
\* each model absent, loaded and predicting, or loaded and raising in predict
InitModels ==
    /\ AppInit
    /\ ml_model \in ModelStates
    /\ mat_model \in ModelStates

SpecModels == InitModels /\ [][Next]_vars

\* the same application with area texts beyond the range of a float
NextExtreme ==
    \/ GoHome
    \/ OpenService
    \/ Clear
    \/ Back
    \/ \E v \in FormServices, a \in ExtremeAreaTexts, p \in PointsTexts :
           GenerateEstimate(v, a, p)

SpecExtreme == Init /\ [][NextExtreme]_vars

\* the same application with estimates saved to history
NextSave ==
    \/ GoHome
    \/ OpenService
    \/ Clear
    \/ Back
    \/ \E v \in SaveServices, a \in SaveAreaTexts, p \in SavePointsTexts :
           GenerateEstimate(v, a, p)
    \/ SaveEstimate
    \/ DismissPopup
    \/ HistoryHome

SpecSave == Init /\ [][NextSave]_vars

\* the same application with worker logs saved
NextWorkLog ==
    \/ GoHome
    \/ OpenService
    \/ OpenWorkLog
    \/ CancelWorkLog
    \/ \E w \in WorkerTexts, c \in CompletedTexts, n \in NextDayTexts, sel \in Selections :
           SaveWorkLog(w, c, n, sel)
    \/ DismissPopup
    \/ HistoryHome

SpecWorkLog == Init /\ [][NextWorkLog]_vars

\* the same application with the spinner's text set by a caller

NextDispatch ==
    \/ GoHome
    \/ OpenService
    \/ Clear
    \/ Back
    \/ \E v \in SpinnerTexts \cup OtherServiceTexts,
          a \in DispatchAreaTexts, p \in DispatchPointsTexts :
           GenerateEstimate(v, a, p)

SpecDispatch == Init /\ [][NextDispatch]_vars

\* the same application used for Painting and Tiles quotes over many areas

NextPurchase ==
    \/ GoHome
    \/ OpenService
    \/ Clear
    \/ Back
    \/ \E v \in PurchaseServices, a \in PurchaseAreaTexts :
           GenerateEstimate(v, a, <<>>)

SpecPurchase == Init /\ [][NextPurchase]_vars

---------------------------------------------------------------------------
(* The estimator's functions called directly (spec section 6): a caller    *)
(* passes the leading positional arguments and leaves the rest to their    *)
(* defaults.  The definitions that run are estimator.py's when it imports, *)
(* else main.py's own (main.py:70-93).                                     *)

Areas == {Rat(m * 10, Pow10(e)) : m \in -MaxNegMant..MaxMant, e \in 0..(MaxDecimals + 1)}
PointCounts == -MaxPoints..MaxPoints

Coverages == {Zero, Int2Rat(8), DefaultCoverage}
CoatCounts == {1, DefaultCoats, 3}
Wastages  == {Zero, Rat(5, 100), Rat(1, 10), Rat(1, 4)}
Prices    == {Int2Rat(100), DefaultPricePerLitre}
TileRates == {Int2Rat(450), DefaultRatePerM2}
BaseCharges == {Zero, DefaultBaseCharge}
PerPoints == {Int2Rat(250), DefaultPerPoint}
LabourRates == {DefaultLabourRate, Int2Rat(50), Int2Rat(80), Rat(125, 10)}

PaintArgs ==
    {<<a>> : a \in Areas}
    \cup {<<a, c>> : a \in Areas, c \in Coverages}
    \cup {<<a, c, k>> : a \in Areas, c \in Coverages, k \in CoatCounts}
    \cup {<<a, c, k, w>> : a \in Areas, c \in Coverages, k \in CoatCounts, w \in Wastages}
    \cup {<<a, c, DefaultCoats, w, p>> :
              a \in Areas, c \in Coverages, w \in Wastages, p \in Prices}

TilesArgs ==
    {<<a>> : a \in Areas}
    \cup {<<a, w>> : a \in Areas, w \in Wastages}
    \cup {<<a, w, r>> : a \in Areas, w \in Wastages, r \in TileRates}

PlumbingArgs ==
    {<<>>}
    \cup {<<n>> : n \in PointCounts}
    \cup {<<n, b>> : n \in PointCounts, b \in BaseCharges}
    \cup {<<n, b, pp>> : n \in PointCounts, b \in BaseCharges, pp \in PerPoints}

LabourArgs ==
    {<<a>> : a \in Areas}
    \cup {<<a, r>> : a \in Areas, r \in LabourRates}

Returned(v) == [exc |-> "none", val |-> v]
Raised(e)   == [exc |-> e]

\* estimator.py:4-17, or main.py:73-77
CallPaint(args) ==
    LET a == args[1]
        c == Arg(args, 2, DefaultCoverage)
        k == Arg(args, 3, DefaultCoats)
        w == Arg(args, 4, DefaultPaintWastage)
        p == Arg(args, 5, DefaultPricePerLitre)
    IN  /\ call.fn = "none"
        /\ call' = [fn |-> "paint_estimate", args |-> args]
        /\ ret' = IF est_imported
                  THEN IF paint_estimate_raises(a, c, k, w, p)
                       THEN Raised("ZeroDivisionError")
                       ELSE Returned(paint_estimate(fp_side, a, c, k, w, p))
                  ELSE IF fb_paint_estimate_raises(a, c, k, w, p)
                       THEN Raised("ZeroDivisionError")
                       ELSE Returned(fb_paint_estimate(fp_side, a, c, k, w, p))
        /\ UNCHANGED <<host, annex, callers, error, popups, storage, screen, form, current_image, quote>>

\* estimator.py:19-30, or main.py:79-83
CallTiles(args) ==
    LET a == args[1]
        w == Arg(args, 2, DefaultTileWastage)
        r == Arg(args, 3, DefaultRatePerM2)
    IN  /\ call.fn = "none"
        /\ call' = [fn |-> "tiles_estimate", args |-> args]
        /\ ret' = IF est_imported
                  THEN Returned(tiles_estimate(fp_side, a, w, r))
                  ELSE Returned(fb_tiles_estimate(fp_side, a, w, r))
        /\ UNCHANGED <<host, annex, callers, error, popups, storage, screen, form, current_image, quote>>

\* estimator.py:32-42, or main.py:85-88
CallPlumbing(args) ==
    LET n  == Arg(args, 1, DefaultNumPoints)
        b  == Arg(args, 2, DefaultBaseCharge)
        pp == Arg(args, 3, DefaultPerPoint)
    IN  /\ call.fn = "none"
        /\ call' = [fn |-> "plumbing_estimate", args |-> args]
        /\ ret' = IF est_imported
                  THEN Returned(plumbing_estimate(fp_side, n, b, pp))
                  ELSE Returned(fb_plumbing_estimate(fp_side, n, b, pp))
        /\ UNCHANGED <<host, annex, callers, error, popups, storage, screen, form, current_image, quote>>

\* estimator.py:44-50, or main.py:90-93
CallLabour(args) ==
    LET a == args[1]
        r == Arg(args, 2, DefaultLabourRate)
    IN  /\ call.fn = "none"
        /\ call' = [fn |-> "generic_labour", args |-> args]
        /\ ret' = IF est_imported
                  THEN Returned(generic_labour(fp_side, a, r))
                  ELSE Returned(fb_generic_labour(fp_side, a, r))
        /\ UNCHANGED <<host, annex, callers, error, popups, storage, screen, form, current_image, quote>>

\* the caller takes the result; the next call can follow
TakeResult ==
    /\ call.fn # "none"
    /\ call' = [fn |-> "none"]
    /\ ret' = [exc |-> "none"]
    /\ UNCHANGED <<host, annex, callers, error, popups, storage, screen, form, current_image, quote>>

NextEstimator ==
    \/ \E args \in PaintArgs : CallPaint(args)
    \/ \E args \in TilesArgs : CallTiles(args)
    \/ \E args \in PlumbingArgs : CallPlumbing(args)
    \/ \E args \in LabourArgs : CallLabour(args)
    \/ TakeResult

SpecEstimator == Init /\ [][NextEstimator]_vars

---------------------------------------------------------------------------
(* Several callers of the estimator's functions, each with one call in     *)
(* progress at a time; the calls of different callers interleave.          *)

MaxCallerPoints == 3
CallerAreas ==
    {Int2Rat(-2), Zero, Rat(1, 100), Rat(343, 100), Rat(344, 100), Int2Rat(50),
     Int2Rat(100)}

PaintCalls == {[fn |-> "paint_estimate", args |-> <<a>>] : a \in CallerAreas}
TilesCalls == {[fn |-> "tiles_estimate", args |-> <<a>>] : a \in CallerAreas}
PlumbingCalls == {[fn |-> "plumbing_estimate", args |-> <<n>>] : n \in 0..MaxCallerPoints}
LabourCalls ==
    {[fn |-> "generic_labour", args |-> <<Int2Rat(50)>>],
     [fn |-> "generic_labour", args |-> <<Int2Rat(50), Int2Rat(80)>>]}

\* what the call k returns: estimator.py's function, or main.py's own
\* (main.py:70-93), on the arguments passed and the defaults of the rest
Outcome(k) ==
    LET Paint(a, c, n, w, p) ==
            IF est_imported
            THEN IF paint_estimate_raises(a, c, n, w, p)
                 THEN Raised("ZeroDivisionError")
                 ELSE Returned(paint_estimate(fp_side, a, c, n, w, p))
            ELSE IF fb_paint_estimate_raises(a, c, n, w, p)
                 THEN Raised("ZeroDivisionError")
                 ELSE Returned(fb_paint_estimate(fp_side, a, c, n, w, p))
        Tiles_(a, w, r) ==
            IF est_imported
            THEN Returned(tiles_estimate(fp_side, a, w, r))
            ELSE Returned(fb_tiles_estimate(fp_side, a, w, r))
        Plumbing_(n, b, pp) ==
            IF est_imported
            THEN Returned(plumbing_estimate(fp_side, n, b, pp))
            ELSE Returned(fb_plumbing_estimate(fp_side, n, b, pp))
        Labour(a, r) ==
            IF est_imported
            THEN Returned(generic_labour(fp_side, a, r))
            ELSE Returned(fb_generic_labour(fp_side, a, r))
    IN  CASE k.fn = "paint_estimate" ->
                Paint(k.args[1], Arg(k.args, 2, DefaultCoverage),
                      Arg(k.args, 3, DefaultCoats), Arg(k.args, 4, DefaultPaintWastage),
                      Arg(k.args, 5, DefaultPricePerLitre))
          [] k.fn = "tiles_estimate" ->
                Tiles_(k.args[1], Arg(k.args, 2, DefaultTileWastage),
                       Arg(k.args, 3, DefaultRatePerM2))
          [] k.fn = "plumbing_estimate" ->
                Plumbing_(Arg(k.args, 1, DefaultNumPoints),
                          Arg(k.args, 2, DefaultBaseCharge),
                          Arg(k.args, 3, DefaultPerPoint))
          [] k.fn = "generic_labour" ->
                Labour(k.args[1], Arg(k.args, 2, DefaultLabourRate))

\* caller c enters a function with its arguments bound
Invoke(c, k) ==
    /\ pending[c] = NoCall
    /\ pending' = [pending EXCEPT ![c] = k]
    /\ UNCHANGED <<host, annex, screen, form, current_image, quote, call, ret, done, error,
                   popups, storage>>

\* the function's body runs and returns to caller c
Complete(c) ==
    /\ pending[c] # NoCall
    /\ done' = [done EXCEPT ![c] = [fn |-> pending[c].fn, args |-> pending[c].args,
                                     ret |-> Outcome(pending[c])]]
    /\ pending' = [pending EXCEPT ![c] = NoCall]
    /\ UNCHANGED <<host, annex, screen, form, current_image, quote, call, ret, error,
                   popups, storage>>

NextCallers ==
    \/ \E c \in Callers, k \in PaintCalls : Invoke(c, k)
    \/ \E c \in Callers, k \in TilesCalls : Invoke(c, k)
    \/ \E c \in Callers, k \in PlumbingCalls : Invoke(c, k)
    \/ \E c \in Callers, k \in LabourCalls : Invoke(c, k)
    \/ \E c \in Callers : Complete(c)

SpecCallers == Init /\ [][NextCallers]_vars

---------------------------------------------------------------------------
(* Properties *)

\* r is a multiple of 1/100 and no further than half a hundredth from x:
\* what "x rounded to 2 decimals" means whichever way a tie goes
IsHundredth(r) == 100 % r.d = 0
NearestHundredth(r, x) ==
    LET diff == RSub(RMul(r, Int2Rat(200)), RMul(x, Int2Rat(200)))
    IN  /\ IsHundredth(r)
        /\ RLe(diff, Int2Rat(1))
        /\ RLe(Int2Rat(-1), diff)

Heading(q) == q.breakdown[1]

\* C1: generate_estimate takes the branch of the first of 'paint', 'tile',
\* 'plumb' that the lower-cased service name contains, the Generic branch when
\* it contains none, and only that branch's lines and quantity are produced;
\* Carpentry, AC Service, Renovation and Electrical take Generic, and a name
\* with several of the substrings takes the earliest.
C1_DispatchPrecedence ==
    gen.set =>
        LET s == Lower(gen.svc)
            expected ==
                IF Contains(SubPaint, s) THEN "paint"
                ELSE IF Contains(SubTile, s) THEN "tile"
                ELSE IF Contains(SubPlumb, s) THEN "plumb"
                ELSE "generic"
        IN  /\ gen.branch = expected
            /\ gen.svc \in {Painting, UpperPaint, TilePainting, PlumberPainting}
                   => gen.branch = "paint"
            /\ gen.svc \in {Tiles, PlumbingTiles} => gen.branch = "tile"
            /\ gen.svc = Plumbing => gen.branch = "plumb"
            /\ gen.svc \in {Carpentry, ACService, Renovation, Electrical, Roof}
                   => gen.branch = "generic"
            \* exactly one branch ran: its heading and its quantity key
            /\ Heading(last_estimate) =
                   CASE gen.branch = "paint"   -> <<"[b]Painting[/b]">>
                     [] gen.branch = "tile"    -> <<"[b]Tiling[/b]">>
                     [] gen.branch = "plumb"   -> <<"[b]Plumbing[/b]">>
                     [] gen.branch = "generic" -> <<"[b]">> \o gen.svc \o <<"[/b]">>
            /\ Len(last_estimate.breakdown) = 3
            /\ gen.material_qty.key =
                   CASE gen.branch = "paint"   -> "paint_litres"
                     [] gen.branch = "tile"    -> "tiles_m2"
                     [] gen.branch = "plumb"   -> "plumbing_points"
                     [] gen.branch = "generic" -> "generic_area"

\* a name holding both 'tile' and 'paint' was priced by the Painting branch
C1_Witness ==
    /\ gen.set
    /\ gen.svc = TilePainting
    /\ gen.branch = "paint"
    /\ Heading(last_estimate) = <<"[b]Painting[/b]">>

Called(fn) == call.fn = fn
OnDefaults(n) == Len(call.args) <= n

\* C2: for area > 0 and the default parameters paint_estimate returns
\* litres = (area / 10) * 2 * 1.1 and materialCost = litres * 250, each rounded
\* to 2 decimals; area 100 gives (22.0, 5500.0).
C2_PaintFormula ==
    (Called("paint_estimate") /\ OnDefaults(1) /\ RLt(Zero, call.args[1])) =>
        LET area   == call.args[1]
            litres == RMul(RMul(RDiv(area, Int2Rat(10)), Int2Rat(2)), Rat(11, 10))
        IN  /\ ret.exc = "none"
            /\ NearestHundredth(ret.val[1], litres)
            /\ NearestHundredth(ret.val[2], RMul(litres, Int2Rat(250)))
            /\ area = Int2Rat(100) => ret.val = <<Int2Rat(22), Int2Rat(5500)>>

C2_Witness ==
    /\ Called("paint_estimate")
    /\ call.args = <<Int2Rat(100)>>
    /\ ret = Returned(<<Int2Rat(22), Int2Rat(5500)>>)

\* C3: for area > 0 and the default parameters tiles_estimate returns
\* quantity = area * 1.05 and materialCost = quantity * 600, each rounded to 2
\* decimals; area 50 gives (52.5, 31500.0).
C3_TilesFormula ==
    (Called("tiles_estimate") /\ OnDefaults(1) /\ RLt(Zero, call.args[1])) =>
        LET area == call.args[1]
            qty  == RMul(area, Rat(105, 100))
        IN  /\ ret.exc = "none"
            /\ NearestHundredth(ret.val[1], qty)
            /\ NearestHundredth(ret.val[2], RMul(qty, Int2Rat(600)))
            /\ area = Int2Rat(50) => ret.val = <<Rat(525, 10), Int2Rat(31500)>>

C3_Witness ==
    /\ Called("tiles_estimate")
    /\ call.args = <<Int2Rat(50)>>
    /\ ret = Returned(<<Rat(525, 10), Int2Rat(31500)>>)

PointsPassed == IF call.args = <<>> THEN 1 ELSE call.args[1]

\* C4: for points >= 1 and the default parameters plumbing_estimate returns
\* 500 + points * 300; 4 points give 1700.0.
C4_PlumbingFormula ==
    (Called("plumbing_estimate") /\ OnDefaults(1) /\ PointsPassed >= 1) =>
        /\ ret = Returned(Int2Rat(500 + PointsPassed * 300))
        /\ PointsPassed = 4 => ret.val = Int2Rat(1700)

C4_Witness ==
    /\ Called("plumbing_estimate")
    /\ call.args = <<2>>
    /\ ret = Returned(Int2Rat(1100))

\* C5: for area > 0 generic_labour(area, rate) returns area * rate rounded to 2
\* decimals, the rate being 30.0 when none is passed; area 80 gives 2400.0.
C5_LabourFormula ==
    (Called("generic_labour") /\ RLt(Zero, call.args[1])) =>
        LET area == call.args[1]
            rate == IF Len(call.args) >= 2 THEN call.args[2] ELSE Int2Rat(30)
        IN  /\ ret.exc = "none"
            /\ NearestHundredth(ret.val, RMul(area, rate))
            /\ call.args = <<Int2Rat(80)>> => ret.val = Int2Rat(2400)

C5_Witness ==
    /\ Called("generic_labour")
    /\ call.args = <<Int2Rat(80)>>
    /\ ret = Returned(Int2Rat(2400))

\* C6: for area <= 0, whatever the other parameters, paint_estimate and
\* tiles_estimate return (0.0, 0.0) and generic_labour returns 0.0.
C6_NonPositiveArea ==
    /\ (Called("paint_estimate") /\ RLe(call.args[1], Zero)) =>
           ret = Returned(<<Zero, Zero>>)
    /\ (Called("tiles_estimate") /\ RLe(call.args[1], Zero)) =>
           ret = Returned(<<Zero, Zero>>)
    /\ (Called("generic_labour") /\ RLe(call.args[1], Zero)) =>
           ret = Returned(Zero)

\* a negative area with a wastage and a rate passed
C6_Witness ==
    /\ Called("tiles_estimate")
    /\ Len(call.args) = 3
    /\ RLt(call.args[1], Zero)
    /\ ret = Returned(<<Zero, Zero>>)

\* C7: for points <= 0 plumbing_estimate returns 0.0, with no callout charge,
\* in estimator.py's definition and in main.py's fallback definition alike.
C7_NonPositivePoints ==
    (Called("plumbing_estimate") /\ PointsPassed <= 0) => ret = Returned(Zero)

\* main.py's fallback definition called with 0 points and a callout charge
C7_Witness ==
    /\ ~est_imported
    /\ Called("plumbing_estimate")
    /\ Len(call.args) >= 2
    /\ call.args[1] = 0
    /\ call.args[2] = DefaultBaseCharge
    /\ ret = Returned(Zero)

\* C8: in generate_estimate's Plumbing branch the points are floored to
\* max(points, 1) before pricing, for every integer points: the total is
\* 500 + 300 * max(points, 1), never 0 and never the bare callout charge of 500.
C8_PlumbingFloor ==
    (gen.set /\ gen.branch = "plumb") =>
        /\ gen.total = Int2Rat(500 + 300 * Max(gen.points, 1))
        /\ last_estimate.total = Int2Rat(500 + 300 * Max(gen.points, 1))
        /\ last_estimate.total # Zero
        /\ last_estimate.total # Int2Rat(500)

\* a Plumbing request with a negative point count was priced for one point
C8_Witness ==
    /\ gen.set
    /\ gen.branch = "plumb"
    /\ gen.points < 0
    /\ last_estimate.total = Int2Rat(800)

\* the labour rate of a branch with a material / labour split
BranchRate(branch) ==
    CASE branch = "paint"   -> Int2Rat(30)
      [] branch = "tile"    -> Int2Rat(50)
      [] branch = "generic" -> Int2Rat(80)

\* the Plumbing quote: heading, point count and the one combined charge
PlumbingHasNoSplit ==
    /\ last_estimate.total = gen.total
    /\ last_estimate.breakdown[2][1] = "(bullet) Points: "
    /\ last_estimate.breakdown[3] = <<"(bullet) Total:  Rs">> \o Fmt2(fp_side, gen.total)

\* C9 as claimed: in the Painting, Tiles and Generic branches the recorded
\* total is round(materialCost + labourCost, 2) with labourCost = area * 30,
\* area * 50 and area * 80; Plumbing's total is the one combined charge.
C9_AsClaimed ==
    gen.set =>
        IF gen.branch = "plumb"
        THEN PlumbingHasNoSplit
        ELSE /\ NearestHundredth(last_estimate.total, RAdd(gen.material, gen.labour))
             /\ gen.labour = RMul(gen.area, BranchRate(gen.branch))

\* C9 (amended): in the Painting, Tiles and Generic branches the recorded total
\* is round(materialCost + labourCost, 2), where labourCost is area * rate
\* rounded to 2 decimals when area > 0 and 0 when area <= 0, the rate being 30,
\* 50 and 80; Plumbing's total is the one combined charge with no split.
C9_TotalIsMaterialPlusLabour ==
    gen.set =>
        IF gen.branch = "plumb"
        THEN PlumbingHasNoSplit
        ELSE /\ NearestHundredth(last_estimate.total, RAdd(gen.material, gen.labour))
             /\ IF RLt(Zero, gen.area)
                THEN NearestHundredth(gen.labour, RMul(gen.area, BranchRate(gen.branch)))
                ELSE gen.labour = Zero

\* a Tiles request for 50 m2: 31500 of material and 2500 of labour
C9_Witness ==
    /\ gen.set
    /\ gen.branch = "tile"
    /\ gen.area = Int2Rat(50)
    /\ gen.labour = Int2Rat(2500)
    /\ last_estimate.total = Int2Rat(34000)

\* C10 as claimed: in the Generic branch with area >= 0, materialCost is
\* area * 150, labourCost is area * 80 and the total is their sum, area * 230.
C10_AsClaimed ==
    (gen.set /\ gen.branch = "generic" /\ RLe(Zero, gen.area)) =>
        /\ gen.material = RMul(gen.area, Int2Rat(150))
        /\ gen.labour = RMul(gen.area, Int2Rat(80))
        /\ gen.total = RAdd(gen.material, gen.labour)
        /\ gen.total = RMul(gen.area, Int2Rat(230))

\* C10 (amended): in the Generic branch with area >= 0, materialCost is
\* area * 150, labourCost is area * 80 rounded to 2 decimals and the total is
\* their sum, recorded rounded to 2 decimals; it is area * 230 whenever
\* area * 80 has no more than 2 decimals.
C10_GenericFormula ==
    (gen.set /\ gen.branch = "generic" /\ RLe(Zero, gen.area)) =>
        /\ gen.material = RMul(gen.area, Int2Rat(150))
        /\ NearestHundredth(gen.labour, RMul(gen.area, Int2Rat(80)))
        /\ gen.total = RAdd(gen.material, gen.labour)
        /\ NearestHundredth(last_estimate.total, gen.total)
        /\ IsHundredth(RMul(gen.area, Int2Rat(80))) =>
               /\ gen.labour = RMul(gen.area, Int2Rat(80))
               /\ gen.total = RMul(gen.area, Int2Rat(230))
               /\ last_estimate.total = RMul(gen.area, Int2Rat(230))

\* a Carpentry request for 50 m2: 7500 of material, 4000 of labour
C10_Witness ==
    /\ gen.set
    /\ gen.svc = Carpentry
    /\ gen.area = Int2Rat(50)
    /\ gen.material = Int2Rat(7500)
    /\ gen.labour = Int2Rat(4000)
    /\ last_estimate.total = Int2Rat(11500)

\* C11: in the Generic branch with area <= 0 (zero or negative) the material
\* component and the labour component are both 0, and so is the total.
C11_GenericNonPositiveArea ==
    (gen.set /\ gen.branch = "generic" /\ RLe(gen.area, Zero)) =>
        /\ gen.material = Zero
        /\ gen.labour = Zero
        /\ gen.total = Zero
        /\ last_estimate.total = Zero

\* The cans the greedy packing of litres gives, computed size by size:
\* <<tens, fours, ones>>, the ones with the extra can for a residue.
GreedyCans(litres) ==
    LET Ones(rest, n10, n4) ==
            <<n10, n4,
              RFloor(rest) + (IF RLt(Zero, RSub(rest, Int2Rat(RFloor(rest)))) THEN 1 ELSE 0)>>
        Fours(rest, n10) ==
            Ones(RSub(rest, Int2Rat(4 * RFloor(RDiv(rest, Int2Rat(4))))),
                 n10, RFloor(RDiv(rest, Int2Rat(4))))
        Tens(rest) ==
            Fours(RSub(rest, Int2Rat(10 * RFloor(RDiv(rest, Int2Rat(10))))),
                  RFloor(RDiv(rest, Int2Rat(10))))
    IN  Tens(litres)

\* the cans as listed: largest size first, only the sizes with a count > 0
CansListed(c) ==
    LET entry(n, size) == IF n > 0 THEN << NatStr(n) \o <<"x">> \o size >> ELSE <<>>
        Listed(es) ==
            IF Len(es) = 0 THEN <<>>
            ELSE IF Len(es) = 1 THEN es[1]
            ELSE IF Len(es) = 2 THEN es[1] \o <<", ">> \o es[2]
            ELSE es[1] \o <<", ">> \o es[2] \o <<", ">> \o es[3]
    IN  Listed(entry(c[1], <<"1", "0", "L">>) \o entry(c[2], <<"4", "L">>)
                   \o entry(c[3], <<"1", "L">>))

\* C12: with no material model, the paint suggestion for litres > 0 lists the
\* greedy packing over the sizes 10, 4, 1 (count = floor(remaining / size),
\* listed only if > 0) with one more 1-litre can for a residue, largest size
\* first; for litres 0 it says no paint is required and lists no can.
C12_PaintCans ==
    (gen.set /\ gen.branch = "paint") =>
        IF RLt(Zero, gen.material_qty.val)
        THEN gen.mat_text =
                 <<"\nPurchase suggestion (paint): ">>
                     \o CansListed(GreedyCans(gen.material_qty.val))
                     \o <<"  (approx. ">> \o ReprFloat(gen.material_qty.val)
                     \o <<" L required)">>
        ELSE gen.mat_text = <<"\nMaterial suggestion: No paint required for 0 area.">>

\* 100 m2 of Painting: 22.0 litres, bought as 2x10L, 2x1L
C12_Witness ==
    /\ gen.set
    /\ gen.branch = "paint"
    /\ gen.material_qty.val = Int2Rat(22)
    /\ gen.mat_text = <<"\nPurchase suggestion (paint): ",
                        "2", "x", "1", "0", "L", ", ", "2", "x", "1", "L",
                        "  (approx. ", "2", "2", ".", "0", " L required)">>

\* 25 m2 of Painting: 5.5 litres, a 4-litre can, a 1-litre can and one more
\* for the half litre left
C12_WitnessResidue ==
    /\ gen.set
    /\ gen.branch = "paint"
    /\ gen.material_qty.val = Rat(55, 10)
    /\ GreedyCans(gen.material_qty.val) = <<0, 1, 2>>

\* ceil(qty / 1.2): the smallest number of 1.2 m2 boxes that cover qty
CeilBoxes(qty) ==
    CHOOSE b \in 0..(RFloor(qty) + 1) :
        /\ RLe(qty, RMul(Int2Rat(b), Rat(12, 10)))
        /\ RLt(RMul(Int2Rat(b - 1), Rat(12, 10)), qty)

\* C13: with no material model, the tile suggestion for qty > 0 gives
\* boxes = ceil(qty / 1.2), the smallest integer with boxes * 1.2 >= qty, and
\* boxes * 1.2 as the area covered; for qty <= 0 it says no tiles are required.
C13_TileBoxesCeil ==
    (gen.set /\ gen.branch = "tile") =>
        IF RLt(Zero, gen.material_qty.val)
        THEN gen.mat_text =
                 <<"\nPurchase suggestion (tiles): ">>
                     \o NatStr(CeilBoxes(gen.material_qty.val))
                     \o <<" boxes (covering ~">>
                     \o ReprFloat(RMul(Int2Rat(CeilBoxes(gen.material_qty.val)), Rat(12, 10)))
                     \o <<" m2) for required ">> \o ReprFloat(gen.material_qty.val)
                     \o <<" m2">>
        ELSE gen.mat_text = <<"\nMaterial suggestion: No tiles required for 0 area.">>

C15_Monotone ==
    \A c1 \in Callers, c2 \in Callers :
        /\ (/\ done[c1].fn \in {"paint_estimate", "tiles_estimate"}
            /\ done[c2].fn = done[c1].fn
            /\ RLe(done[c1].args[1], done[c2].args[1]))
              => /\ done[c1].ret.exc = "none"
                 /\ done[c2].ret.exc = "none"
                 /\ RLe(done[c1].ret.val[1], done[c2].ret.val[1])
                 /\ RLe(done[c1].ret.val[2], done[c2].ret.val[2])
        /\ (/\ done[c1].fn = "plumbing_estimate"
            /\ done[c2].fn = "plumbing_estimate"
            /\ 1 <= done[c1].args[1]
            /\ done[c1].args[1] < done[c2].args[1])
              => /\ done[c1].ret.exc = "none"
                 /\ done[c2].ret.exc = "none"
                 /\ RLt(done[c1].ret.val, done[c2].ret.val)

\* tiles for 3.43 and for 3.44 square metres: 3.6 against 3.61 square
\* metres bought
C15_Witness ==
    /\ done["a"].fn = "tiles_estimate"
    /\ done["a"].args = <<Rat(343, 100)>>
    /\ done["b"].fn = "tiles_estimate"
    /\ done["b"].args = <<Rat(344, 100)>>
    /\ done["a"].ret.val[1] = Rat(360, 100)
    /\ done["b"].ret.val[1] = Rat(361, 100)
    /\ RLt(done["a"].ret.val[2], done["b"].ret.val[2])

\* plumbing for 1 and for 3 points, and paint for -2 and for 0 square metres
C15_WitnessPlumbing ==
    /\ done["a"].fn = "plumbing_estimate"
    /\ done["a"].args = <<1>>
    /\ done["b"].fn = "plumbing_estimate"
    /\ done["b"].args = <<MaxCallerPoints>>
    /\ RLt(done["a"].ret.val, done["b"].ret.val)

\* the deterministic total of the form just estimated: the estimator's figures
\* for its service, area and points, with no reference to a model
DeterministicTotal ==
    Estimate(est_imported, fp_side, GenSvc(gen.svc_text), GenArea(Strip(area_txt)),
             GenPoints(Strip(points_txt))).total

\* C16: the total recorded in last_estimate is the deterministic total for
\* (service, area, points), rounded to two decimals, whatever the state of
\* the cost model (absent, predicting, raising); the displayed text starts with
\* that total and a prediction, if any, only follows it.
C16_TotalIgnoresModel ==
    (gen.set /\ screen = "quote") =>
        /\ last_estimate.total = Round2(fp_side, DeterministicTotal)
        /\ est_label = <<"Estimated total: Rs">> \o Fmt2(fp_side, DeterministicTotal)
                          \o gen.ml_text
        /\ (ml_model # "predicts") => gen.ml_text = <<>>
        /\ (ml_model = "predicts") =>
              \E pred \in MlPredictions :
                  gen.ml_text = <<"\nML predicted total: Rs">> \o Fmt2(fp_side, pred)

\* Painting for 50 square metres shown with a predicting cost model: the
\* total stays 4250 and the prediction 1234.56 is appended
C16_Witness ==
    /\ screen = "quote"
    /\ ml_model = "predicts"
    /\ gen.set
    /\ gen.svc = Painting
    /\ area_txt = <<"5", "0">>
    /\ last_estimate.total = Int2Rat(4250)
    /\ est_label = <<"Estimated total: Rs", "4", "2", "5", "0", ".", "0", "0",
                     "\nML predicted total: Rs", "1", "2", "3", "4", ".", "5", "6">>

\* the same form with a cost model that raises in predict
C16_WitnessRaising ==
    /\ screen = "quote"
    /\ ml_model = "raises"
    /\ gen.set
    /\ gen.svc = Painting
    /\ area_txt = <<"5", "0">>
    /\ last_estimate.total = Int2Rat(4250)
    /\ est_label = <<"Estimated total: Rs", "4", "2", "5", "0", ".", "0", "0">>

\* the estimator's figures of the form just estimated and the purchase
\* suggestion main.py:881-913 derives from them
DeterministicEstimate ==
    Estimate(est_imported, fp_side, GenSvc(gen.svc_text), GenArea(Strip(area_txt)),
             GenPoints(Strip(points_txt)))

DeterministicSuggestion ==
    LET Of(e) == Suggestion(fp_side, e.branch, e.material_qty)
    IN  Of(DeterministicEstimate)

\* C17: whatever the state of the cost model and of the material model, the
\* quote shown has the deterministic breakdown lines, the deterministic total
\* and the deterministic purchase suggestion.
C17_DeterministicResultShown ==
    (gen.set /\ screen = "quote") =>
        /\ Contains(JoinLines(DeterministicEstimate.breakdown), breakdown_label)
        /\ Contains(Fmt2(fp_side, DeterministicEstimate.total), est_label)
        /\ Contains(DeterministicSuggestion, breakdown_label)

\* C18: generate_estimate never ends in an error, whatever the area and
\* points texts: on the quote screen an estimate is recorded, an empty or
\* unparseable area text has given the area 0.0 and an empty or unparseable
\* points text the points 0.
C18_NeverEndsInError ==
    /\ error = "none"
    /\ (screen = "quote") =>
          /\ last_estimate.set
          /\ (Strip(area_txt) = <<>> \/ ~ParseFloat(Strip(area_txt)).ok)
                => last_estimate.area = Zero
          /\ (Strip(points_txt) = <<>> \/ ~ParseInt(Strip(points_txt)).ok)
                => last_estimate.points = 0

\* as C18, for the area texts within the range of a float
C18_InRange ==
    (area_txt \notin {HugeAreaText, <<"-">> \o HugeAreaText}) => C18_NeverEndsInError

\* the row save_estimate has just inserted: the Saved popup is still open
JustSaved == popup = <<"Saved", "Estimate saved to history.">>
SavedRow == requests[Len(requests)]

\* C19: the record save_estimate stores carries the service, the total, the
\* breakdown lines and the purchase suggestion of the estimate generated last,
\* each as generated.
C19_SavedVerbatim ==
    JustSaved =>
        /\ SavedRow.service = gen.svc
        /\ SavedRow.cost = Round2(fp_side, gen.total)
        /\ Contains(JoinLines(last_estimate.breakdown), SavedRow.details)
        /\ Contains(gen.mat_text, SavedRow.details)

\* as C19 without the purchase suggestion: service, total and breakdown lines
\* are stored as generated, and records.csv, when appended to, has the same
\* service and total
C19_SavedFigures ==
    JustSaved =>
        /\ SavedRow.service = gen.svc
        /\ SavedRow.cost = Round2(fp_side, gen.total)
        /\ SavedRow.details = JoinLines(last_estimate.breakdown)
        /\ SavedRow.created_at = last_estimate.time

\* the work log _save has just stored: the Saved popup is still open
LogJustSaved == popup = <<"Saved", "Work log saved.">>
LoggedRow == work_logs[Len(work_logs)]

\* C20: a worker log reported with "Work log saved." is a row of the table
\* work_logs and a row of data/work_logs.csv, with the same worker, completed,
\* next_day, photo and timestamp in both.
C20_LogInDatabaseAndCsv ==
    LogJustSaved =>
        /\ work_logs # <<>>
        /\ work_logs_csv.exists
        /\ work_logs_csv.rows[Len(work_logs_csv.rows)] =
              <<LoggedRow.created_at, LoggedRow.worker, LoggedRow.completed,
                LoggedRow.next_day, LoggedRow.photo>>

\* as C20 for the table alone: the log reported saved is the last row of
\* work_logs, and the last row of work_logs.csv whenever the file was appended to
\* as many times as the table
C20_LogInDatabase ==
    LogJustSaved =>
        /\ work_logs # <<>>
        /\ LoggedRow.worker # <<>>
        /\ (LoggedRow.completed # <<>> \/ LoggedRow.next_day # <<>>)
        /\ (work_logs_csv.exists /\ Len(work_logs_csv.rows) = Len(work_logs) + 1)
              => work_logs_csv.rows[Len(work_logs_csv.rows)] =
                    <<LoggedRow.created_at, LoggedRow.worker, LoggedRow.completed,
                      LoggedRow.next_day, LoggedRow.photo>>

\* C24: an estimate generated with no service selected (the spinner's text
\* empty or 'Select Service') is priced by the Painting branch, not the
\* generic one; the spinner is set to 'Painting' and the recorded estimate's
\* service is 'Painting'.
C24_NoServiceIsPainting ==
    (screen = "quote" /\ gen.set /\ gen.svc_text \in {<<>>, SelectService}) =>
        /\ gen.branch = "paint"
        /\ svc_spinner = Painting
        /\ last_estimate.service = Painting
        /\ last_estimate.breakdown[1] = <<"[b]Painting[/b]">>
        /\ last_estimate.total
              = Round2(fp_side, PaintBranch(est_imported, fp_side, gen.area).total)

\* 'Select Service' with area 50: Painting, 11 litres, total 4250
C24_Witness ==
    /\ screen = "quote"
    /\ gen.set
    /\ gen.svc_text = SelectService
    /\ area_txt = <<"5", "0">>
    /\ svc_spinner = Painting
    /\ last_estimate.service = Painting
    /\ last_estimate.total = Int2Rat(4250)

\* the same with the spinner's text empty
C24_WitnessEmpty ==
    /\ screen = "quote"
    /\ gen.set
    /\ gen.svc_text = <<>>
    /\ area_txt = <<"5", "0">>
    /\ svc_spinner = Painting
    /\ last_estimate.total = Int2Rat(4250)

\* the counts <<n10, n4, n1>> of cans that cover litres without a whole can
\* to spare: litres <= 10 n10 + 4 n4 + n1 < litres + 1
CoveringCans(litres) ==
    {c \in (0..(RFloor(litres) + 1)) \X (0..(RFloor(litres) + 1)) \X (0..(RFloor(litres) + 1)) :
        /\ RLe(litres, Int2Rat(10 * c[1] + 4 * c[2] + c[3]))
        /\ RLt(Int2Rat(10 * c[1] + 4 * c[2] + c[3]), RAdd(litres, Int2Rat(1)))}

\* C26: for a paint quantity litres > 0 the cans listed in the purchase
\* suggestion cover the requirement without a whole can to spare:
\* litres <= sum(count * size) < litres + 1.
C26_CansCoverRequirement ==
    (gen.set /\ gen.branch = "paint" /\ RLt(Zero, gen.material_qty.val)) =>
        \E c \in CoveringCans(gen.material_qty.val) :
            gen.mat_text =
                <<"\nPurchase suggestion (paint): ">> \o CansListed(c)
                    \o <<"  (approx. ">> \o ReprFloat(gen.material_qty.val)
                    \o <<" L required)">>

\* 3.43 m2 of Painting: 0.75 litres, covered by one 1-litre can
C26_Witness ==
    /\ gen.set
    /\ gen.branch = "paint"
    /\ area_txt = <<"3", ".", "4", "3">>
    /\ gen.material_qty.val = Rat(75, 100)
    /\ gen.mat_text = <<"\nPurchase suggestion (paint): ", "1", "x", "1", "L",
                        "  (approx. ", "0", ".", "7", "5", " L required)">>

\* 50 m2 of Painting: 11.0 litres, covered exactly by 1x10L, 1x1L
C26_WitnessExact ==
    /\ gen.set
    /\ gen.branch = "paint"
    /\ gen.material_qty.val = Int2Rat(11)
    /\ gen.mat_text = <<"\nPurchase suggestion (paint): ",
                        "1", "x", "1", "0", "L", ", ", "1", "x", "1", "L",
                        "  (approx. ", "1", "1", ".", "0", " L required)">>

\* C27: for a Plumbing request the point count recorded in last_estimate (and
\* written to records.csv) is the count that was priced and shown in the
\* breakdown, so that the recorded total is 500 + 300 * recorded points.
C27_RecordedPointsArePriced ==
    (screen = "quote" /\ gen.set /\ gen.branch = "plumb") =>
        /\ last_estimate.points = gen.material_qty.val
        /\ last_estimate.breakdown[2] = <<"(bullet) Points: ">> \o IntStr(last_estimate.points)
        /\ last_estimate.total
              = RAdd(DefaultBaseCharge, RMul(Int2Rat(last_estimate.points), DefaultPerPoint))

\* as C27 for the requests whose points text is a number >= 1
C27_PricedWhenPositive ==
    (screen = "quote" /\ gen.set /\ gen.branch = "plumb" /\ last_estimate.points >= 1) =>
        /\ last_estimate.points = gen.material_qty.val
        /\ last_estimate.total
              = RAdd(DefaultBaseCharge, RMul(Int2Rat(last_estimate.points), DefaultPerPoint))

---------------------------------------------------------------------------
(* train_model.py: the data set the cost model is trained on *)

MIN_REAL == 100
TARGET_SIZE == 2000

\* the largest number of rows of data/records.csv considered
MaxRealRows == 102

\* a row of the data set: where it comes from, its place there, and whether
\* its total is a number or missing (NaN)
Row(src, id, total) == [src |-> src, id |-> id, total |-> total]

\* train_model.py:21-51: n synthetic rows; a synthetic total is
\* float(max(100, ...)), a number
make_synthetic_rows(n) == [i \in 1..n |-> Row("synthetic", i, "number")]

\* data/records.csv as pd.read_csv reads it (train_model.py:55-57): n rows,
\* their totals all numbers, all unreadable as numbers, or all but the first
\* unreadable
RecordFiles ==
    {[rows |-> n, totals |-> t] :
        n \in 0..MaxRealRows, t \in {"numbers", "unreadable", "first only"}}
TotalRead(file, i) ==
    IF file.totals = "numbers" \/ (file.totals = "first only" /\ i = 1)
    THEN "number" ELSE "missing"

\* train_model.py:66-69: pd.to_numeric(errors='coerce') makes an unreadable
\* total NaN and fillna puts the median of the others in its place; the median
\* of no number is NaN
LoadReal(file) ==
    LET median == IF \E i \in 1..file.rows : TotalRead(file, i) = "number"
                  THEN "number" ELSE "missing"
    IN  [i \in 1..file.rows |->
            Row("real", i, IF TotalRead(file, i) = "number" THEN "number" ELSE median)]

\* a composition that augments whatever the number of real rows
ComposeAlwaysAugmented(real) ==
    real \o make_synthetic_rows(IF TARGET_SIZE > Len(real)
                                THEN TARGET_SIZE - Len(real) ELSE 0)

\* train_model.py:78-89: the real rows alone when there are MIN_REAL of them,
\* else the real rows followed by max(0, TARGET_SIZE - n_real) synthetic rows
Compose(real) ==
    LET n_real == Len(real)
        need   == IF TARGET_SIZE - n_real > 0 THEN TARGET_SIZE - n_real ELSE 0
    IN  IF n_real >= MIN_REAL THEN real ELSE real \o make_synthetic_rows(need)

\* train_model.py:91-93: df.dropna(subset=['total'])
DropMissingTotal(rows) == SelectSeq(rows, LAMBDA r : r.total # "missing")

\* train_model.py:53-93: one run of the trainer over a records file
TrainModel(file) ==
    /\ ~df.set
    /\ df_real' = [set |-> TRUE, rows |-> LoadReal(file)]
    /\ df' = [set |-> TRUE, rows |-> Compose(LoadReal(file))]
    /\ train_df' = [set |-> TRUE, rows |-> DropMissingTotal(Compose(LoadReal(file)))]
    /\ UNCHANGED <<host, screen, form, current_image, quote, call, ret, callers,
                   error, popups, storage, ledger, directory>>

\* the trainer finished; the next run starts afresh
TrainerExit ==
    /\ df.set
    /\ df_real' = [set |-> FALSE]
    /\ df' = [set |-> FALSE]
    /\ train_df' = [set |-> FALSE]
    /\ UNCHANGED <<host, screen, form, current_image, quote, call, ret, callers,
                   error, popups, storage, ledger, directory>>

NextTrainer ==
    \/ \E file \in RecordFiles : TrainModel(file)
    \/ TrainerExit

SpecTrainer == Init /\ [][NextTrainer]_vars

C23_WitnessEnough ==
    /\ df.set
    /\ Len(df_real.rows) = MIN_REAL
    /\ df.rows = df_real.rows

---------------------------------------------------------------------------
(* Attaching a photo, and the history of what was saved *)

\* main.py:350: the home screen's History button, change_screen('history')
HomeHistory ==
    /\ error = "none"
    /\ popup = <<>> /\ ~log_popup /\ ~visit_popup
    /\ screen = "home"
    /\ UNCHANGED <<host, trainer, prov_search, prov_filter, estimate_saves, callers,
                   error, popups, storage, form, current_image, quote, call, ret>>
    /\ change_screen("history")

\* main.py:415-416, 737-746, open_filechooser (the Attach Photo button)
OpenFileChooser ==
    /\ error = "none"
    /\ popup = <<>> /\ ~log_popup /\ ~visit_popup
    /\ screen = "service"
    /\ UNCHANGED <<host, trainer, prov_search, prov_filter, estimate_saves, callers,
                   error, popups, storage, form, current_image, quote, call, ret>>
    /\ change_screen("filechooser_popup")

\* main.py:748-749, close_filechooser (the file chooser's Cancel button)
CloseFileChooser ==
    /\ error = "none"
    /\ popup = <<>> /\ ~log_popup /\ ~visit_popup
    /\ screen = "filechooser_popup"
    /\ UNCHANGED <<host, trainer, prov_search, prov_filter, estimate_saves, callers,
                   error, popups, storage, form, current_image, quote, call, ret>>
    /\ change_screen("service")

\* main.py:761-784, select_file (the file chooser's Select button) with the
\* chooser's selection; exists: whether the selected path still exists
SelectFile(sel) ==
    /\ error = "none"
    /\ popup = <<>> /\ ~log_popup /\ ~visit_popup
    /\ screen = "filechooser_popup"
    /\ UNCHANGED <<host, trainer, prov_search, prov_filter, estimate_saves, callers,
                   error, log_popup, visit_popup, requests, records_csv, work_logs,
                   work_logs_csv, visits, form, last_estimate, est_label,
                   breakdown_label, gen, call, ret>>
    /\ \E now \in Timestamps, exists \in BOOLEAN, copy_ok \in BOOLEAN :
        IF sel = <<>>
        THEN /\ popup' = <<"No file", "Please click a JPG/PNG, then press Select.">>
             /\ UNCHANGED <<current_image, quote_image, uploads, screen, hist_grid,
                            providers_cache, prov_grid>>
        ELSE IF ~exists
        THEN /\ popup' = <<"File missing",
                           "That file path doesn't exist. Try another image.">>
             /\ UNCHANGED <<current_image, quote_image, uploads, screen, hist_grid,
                            providers_cache, prov_grid>>
        ELSE /\ current_image' = PhotoPath(sel, now, copy_ok)
             /\ uploads' = IF copy_ok
                           THEN uploads \cup {PhotoPath(sel, now, copy_ok)}
                           ELSE uploads
             /\ quote_image' = current_image'
             /\ popup' = popup
             /\ change_screen("service")

\* the estimates, the worker logs and the photo of the application used
\* together
PhotoWorkerTexts == {<<"R", "a", "j">>}
PhotoCompletedTexts == {<<"t", "i", "l", "e", "s">>}

NextPhoto ==
    \/ GoHome
    \/ OpenService
    \/ Clear
    \/ Back
    \/ OpenFileChooser
    \/ CloseFileChooser
    \/ \E sel \in Selections : SelectFile(sel)
    \/ \E v \in PhotoServices, a \in PhotoAreaTexts : GenerateEstimate(v, a, <<>>)
    \/ SaveEstimate
    \/ DismissPopup
    \/ HistoryHome
    \/ HomeHistory
    \/ OpenWorkLog
    \/ CancelWorkLog
    \/ \E w \in PhotoWorkerTexts, c \in PhotoCompletedTexts :
           SaveWorkLog(w, c, <<>>, <<>>)

\* one host: estimator.py imported, and one rounding side (what is saved and
\* listed does not depend on the figures of the estimate)
InitOneHost ==
    /\ Init
    /\ est_imported
    /\ fp_side = "below"

SpecPhoto == InitOneHost /\ [][NextPhoto]_vars

\* C22: a step that saves an estimate or a worker log leaves current_image
\* empty; current_image gets a photo only in select_file; and every estimate
\* generated records the current_image of that moment. So an estimate
\* generated after a save with no photo attached in between records no image.
C22_PhotoClearedBySave ==
    [][/\ (Len(requests') > Len(requests) \/ Len(work_logs') > Len(work_logs))
            => current_image' = <<>>
       /\ (current_image' # current_image /\ current_image' # <<>>)
            => screen = "filechooser_popup"
       /\ (screen = "service" /\ (screen' = "quote" \/ error' # "none"))
            => last_estimate'.set /\ last_estimate'.image = current_image]_vars

\* an estimate with a photo was saved, and the estimate generated after it,
\* with no photo attached since, records no image
C22_Witness ==
    /\ requests # <<>>
    /\ requests[1].image # <<>>
    /\ screen = "quote"
    /\ estimate_saves = 0
    /\ current_image = <<>>
    /\ last_estimate.image = <<>>

\* a worker log was saved after a photo was attached, and the estimate
\* generated next records no image
C22_WitnessWorkLog ==
    /\ work_logs # <<>>
    /\ requests = <<>>
    /\ uploads # {}
    /\ screen = "quote"
    /\ last_estimate.image = <<>>

\* C25: no generated estimate is written to the table requests twice, and
\* nothing is written before an estimate was generated: a row is written only
\* from the quote screen, for an estimate with no row yet, and the step leaves
\* the quote screen; the quote screen is entered only by generate_estimate. So
\* the rows never outnumber the generate_estimate calls.
C25_SavedAtMostOnce ==
    [][/\ estimate_saves' <= 1
       /\ Len(requests') > Len(requests)
            => /\ Len(requests') = Len(requests) + 1
               /\ last_estimate.set
               /\ estimate_saves = 0
               /\ screen = "quote"
               /\ screen' # "quote"
       /\ (screen' = "quote" /\ screen # "quote")
            => /\ screen = "service"
               /\ last_estimate'.set
               /\ estimate_saves' = 0]_vars

\* a second estimate was generated and saved after the first: two rows, each
\* written once
C25_Witness ==
    /\ Len(requests) = 2
    /\ estimate_saves = 1
    /\ screen = "history"
    /\ JustSaved

\* the application came back to the service screen from the history of a
\* saved estimate without generating: the estimate saved stays saved once
C25_WitnessReturn ==
    /\ Len(requests) = 1
    /\ estimate_saves = 1
    /\ screen = "service"

\* a step of the worker log's _save that the validation at main.py:1282-1287
\* rejects: the popup "Missing" opens over the Worker Log popup
RejectedSave ==
    /\ log_popup
    /\ popup = <<>>
    /\ popup' # <<>>
    /\ popup'[1] = "Missing"

\* C29: a worker-log save rejected by the validation adds no row to work_logs,
\* no row to work_logs.csv and no file to the uploads directory, leaves the
\* Worker Log popup open, and leaves current_image and the screen as they were.
C29_RejectedSaveChangesNothing ==
    [][RejectedSave =>
          UNCHANGED <<work_logs, work_logs_csv, uploads, log_popup, current_image,
                      screen>>]_vars

\* what holds of a rejected save: everything C29 lists but the uploads
\* directory
C29_RejectedSaveWritesNoLog ==
    [][RejectedSave =>
          UNCHANGED <<work_logs, work_logs_csv, log_popup, current_image, screen>>]_vars

\* a save was rejected with a photo selected: no log, and a file in uploads
C29_WitnessRejected ==
    /\ popup # <<>>
    /\ popup[1] = "Missing"
    /\ log_popup
    /\ work_logs = <<>>
    /\ uploads # {}

---------------------------------------------------------------------------
(* The providers screen *)

AllServices == <<"A", "l", "l">>

\* main.py:1040-1052, filter_providers: the providers of the cache kept for a
\* search text and a service filter
filter_providers(cache, search_text, filter_service) ==
    LET text == Lower(Strip(search_text))
        Kept(p) ==
            /\ ~(filter_service # <<>> /\ filter_service # AllServices
                 /\ p.service # filter_service)
            /\ ~(text # <<>> /\ ~Contains(text, Lower(p.name))
                 /\ ~Contains(text, Lower(p.service)))
    IN  SelectSeq(cache, Kept)

\* main.py:347: the home screen's Providers button, change_screen('providers')
HomeProviders ==
    /\ error = "none"
    /\ popup = <<>> /\ ~log_popup /\ ~visit_popup
    /\ screen = "home"
    /\ UNCHANGED <<host, trainer, prov_search, prov_filter, estimate_saves, callers,
                   error, popups, storage, form, current_image, quote, call, ret>>
    /\ change_screen("providers")

\* main.py:547: the providers screen's Back button, change_screen('home')
ProvidersHome ==
    /\ error = "none"
    /\ popup = <<>> /\ ~log_popup /\ ~visit_popup
    /\ screen = "providers"
    /\ UNCHANGED <<host, trainer, prov_search, prov_filter, estimate_saves, callers,
                   error, popups, storage, form, current_image, quote, call, ret>>
    /\ change_screen("home")

\* main.py:522-526: the search box gets a new text; its on_text calls
\* filter_providers(self.text), the service filter left at its default 'All'
SearchEdited(text) ==
    /\ error = "none"
    /\ popup = <<>> /\ ~log_popup /\ ~visit_popup
    /\ screen = "providers"
    /\ text # prov_search
    /\ prov_search' = text
    /\ prov_grid' = ProviderCards(filter_providers(providers_cache, text, AllServices))
    /\ UNCHANGED <<host, trainer, ledger, providers_cache, prov_filter, callers, error,
                   popups, storage, screen, form, current_image, quote, call, ret>>

\* main.py:527-533: the spinner gets another value; its on_text calls
\* filter_providers(prov_search.text, self.text)
FilterSelected(service) ==
    /\ error = "none"
    /\ popup = <<>> /\ ~log_popup /\ ~visit_popup
    /\ screen = "providers"
    /\ service # prov_filter
    /\ prov_filter' = service
    /\ prov_grid' = ProviderCards(filter_providers(providers_cache, prov_search, service))
    /\ UNCHANGED <<host, trainer, ledger, providers_cache, prov_search, callers, error,
                   popups, storage, screen, form, current_image, quote, call, ret>>

\* main.py:530: the spinner's values
FilterValues ==
    {AllServices, Painting, Plumbing, Tiles, Carpentry,
     <<"A", "C", " ", "S", "e", "r", "v", "i", "c", "e">>,
     <<"R", "e", "n", "o", "v", "a", "t", "i", "o", "n">>,
     <<"E", "l", "e", "c", "t", "r", "i", "c", "a", "l">>}

\* texts typed into the search box: none, part of a name, part of a name and
\* of a service in the other case, a text with spaces around, no match
SearchTexts ==
    {<<>>, <<"r", "a">>, <<"P", "L", "U", "M">>, <<" ", "a", "c", " ">>, <<"z", "z">>}

NextProviders ==
    \/ GoHome
    \/ HomeProviders
    \/ ProvidersHome
    \/ \E text \in SearchTexts : SearchEdited(text)
    \/ \E service \in FilterValues : FilterSelected(service)

SpecProviders == InitOneHost /\ [][NextProviders]_vars

\* the providers of data/providers.json that satisfy a search text (empty, or
\* found in the name or in the service whatever the case) and a service filter
\* ('All', or the provider's service)
Satisfying(text, service) ==
    {PROVIDERS_FILE[i].id :
        i \in {k \in 1..Len(PROVIDERS_FILE) :
                  /\ service = AllServices \/ PROVIDERS_FILE[k].service = service
                  /\ \/ Strip(text) = <<>>
                     \/ Contains(Lower(Strip(text)), Lower(PROVIDERS_FILE[k].name))
                     \/ Contains(Lower(Strip(text)), Lower(PROVIDERS_FILE[k].service))}}
Shown == {prov_grid[i] : i \in 1..Len(prov_grid)}

\* C28: on the providers screen the cards shown are exactly the providers that
\* satisfy both the text of the search box and the value of the service filter.
C28_CardsMatchSearchAndFilter ==
    screen = "providers" => Shown = Satisfying(prov_search, prov_filter)

\* what holds: a step that selects a service filter leaves exactly the
\* providers satisfying the search text and the filter selected
C28_FilterStepMatchesBoth ==
    [][prov_filter' # prov_filter => Shown' = Satisfying(prov_search', prov_filter')]_vars

\* a filter was selected with a search text typed: one provider is left
C28_WitnessBoth ==
    /\ screen = "providers"
    /\ prov_search = <<"r", "a">>
    /\ prov_filter = Painting
    /\ prov_grid = <<2>>

\* a text was typed with the filter at Plumbing: the cards are those of the
\* text alone
C28_WitnessFilterIgnored ==
    /\ screen = "providers"
    /\ prov_filter = Plumbing
    /\ prov_search = <<"r", "a">>
    /\ prov_grid = <<2>>

---------------------------------------------------------------------------
(* Site visits and the history screen *)

\* the largest number of site visits scheduled
MaxVisits == 2

\* main.py:425-426, 1145-1156: the Schedule Site Visit button opens the Site
\* Visit popup
OpenSiteVisit ==
    /\ error = "none"
    /\ popup = <<>> /\ ~log_popup /\ ~visit_popup
    /\ screen = "service"
    /\ visit_popup' = TRUE
    /\ UNCHANGED <<host, annex, callers, error, storage, screen, form, current_image,
                   quote, call, ret, popup, log_popup>>

\* main.py:1171: the popup's Cancel button
CancelSiteVisit ==
    /\ error = "none"
    /\ popup = <<>> /\ visit_popup
    /\ visit_popup' = FALSE
    /\ UNCHANGED <<host, annex, callers, error, storage, screen, form, current_image,
                   quote, call, ret, popup, log_popup>>

\* main.py:1165-1166: the row inserted into the table visits
VisitRow(name, when, addr, now) ==
    [customer |-> name, when_txt |-> when, address |-> addr, created_at |-> now]

\* main.py:1157-1170, _save (the popup's Schedule Visit button) with the texts
\* of the three inputs; db_ok: whether the insert succeeds
SaveVisit(name_text, when_text, addr_text) ==
    /\ error = "none"
    /\ popup = <<>> /\ visit_popup
    /\ Len(visits) < MaxVisits
    /\ UNCHANGED <<host, trainer, prov_search, prov_filter, estimate_saves, callers,
                   error, form, current_image, quote, call, ret, log_popup, requests,
                   records_csv, work_logs, work_logs_csv, uploads>>
    /\ \E now \in Timestamps, db_ok \in BOOLEAN :
        LET Validated(name, when, addr) ==
                IF name = <<>> \/ when = <<>> \/ addr = <<>>
                THEN /\ popup' = <<"Missing", "Please fill all fields.">>
                     /\ UNCHANGED <<visits, visit_popup, screen, hist_grid,
                                    providers_cache, prov_grid>>
                ELSE IF ~db_ok
                THEN /\ popup' = <<"Error", "Failed to schedule visit.">>
                     /\ UNCHANGED <<visits, visit_popup, screen, hist_grid,
                                    providers_cache, prov_grid>>
                ELSE /\ visits' = Append(visits, VisitRow(name, when, addr, now))
                     /\ popup' = <<"Scheduled", <<"Visit scheduled: ">> \o when>>
                     /\ visit_popup' = FALSE
                     /\ change_screen("history")
        IN  Validated(Strip(name_text), Strip(when_text), Strip(addr_text))

\* the texts typed into the Site Visit popup
VisitNames == {<<>>, <<"A", "s", "h", "a">>}
VisitTimes == {<<"2", "0", "2", "5", "-", "1", "1", "-", "1", "0">>}
VisitAddresses == {<<"P", "u", "n", "e">>}

NextHistory ==
    \/ GoHome
    \/ OpenService
    \/ HomeHistory
    \/ HistoryHome
    \/ \E v \in PhotoServices, a \in PhotoAreaTexts : GenerateEstimate(v, a, <<>>)
    \/ SaveEstimate
    \/ DismissPopup
    \/ OpenWorkLog
    \/ CancelWorkLog
    \/ \E w \in PhotoWorkerTexts, c \in PhotoCompletedTexts :
           SaveWorkLog(w, c, <<>>, <<>>)
    \/ OpenSiteVisit
    \/ CancelSiteVisit
    \/ \E n \in VisitNames, t \in VisitTimes, a \in VisitAddresses : SaveVisit(n, t, a)

SpecHistory == InitOneHost /\ [][NextHistory]_vars

\* the cards of one kind among those of the history screen, top first
CardsOf(kind) == SelectSeq(hist_grid, LAMBDA c : c.kind = kind)
\* the ids of a table with n rows, the row inserted last first
Descending(n) == [i \in 1..n |-> n + 1 - i]
Ids(cards) == [i \in 1..Len(cards) |-> cards[i].id]

C21_WitnessFromHome ==
    /\ screen = "history"
    /\ popup = <<>>
    /\ Len(hist_grid) >= 2
    /\ ~JustSaved /\ ~LogJustSaved

====
